---- MODULE Spec2Model ----
(***************************************************************************)
(* SheetDataAccess: table-like CRUD access to a spreadsheet.  One sheet is *)
(* a collection; row 1 holds the headers, the data rows start at row 2.    *)
(* The model follows the class SheetDataCollection of                      *)
(* src/SheetDataAccess.js (lines 132-828).                                 *)
(*                                                                         *)
(* Spec     one collection instance; every public method is one action     *)
(*          (a call runs to completion), and other executions change the   *)
(*          sheet between two calls (OutOfBand).                           *)
(* SpecPf   one preflight instance and its commit actions.                 *)
(* SpecConc several executions whose batch() calls and reads interleave at *)
(*          the granularity of the single spreadsheet calls.               *)
(***************************************************************************)
EXTENDS Integers, Sequences, FiniteSets, TLC

\* ------------------------------------------------------------------ bounds
MaxRows == 2      \* data rows of an initial sheet
MaxRecs == 2      \* records given to one call
MaxOob == 1       \* out-of-band edits of the sheet in one behaviour
MaxCalls == 1     \* calls taking caller-supplied records in one behaviour
MaxCommits == 2   \* commit actions invoked on one preflight instance
MaxConcRecs == 1  \* records given to one of the concurrent batch calls

\* ------------------------------------------------------------------ values
\* A cell or a field holds a text, the number 1 (Num1) or 0 (Num0), or is
\* blank.  A field a record does not have reads as Undefined.
Blank == ""
Num1 == "#1"
Num0 == "#0"
Undefined == "<undefined>"

\* String(v) of JavaScript.
JsString(v) ==
  CASE v = Num1 -> "1"
    [] v = Num0 -> "0"
    [] v = Undefined -> "undefined"
    [] OTHER -> v

\* What Range.setValues stores for a value: undefined leaves the cell blank.
ToCell(v) == IF v = Undefined THEN Blank ELSE v

Max(a, b) == IF a >= b THEN a ELSE b
SetMax(S) == CHOOSE m \in S : \A n \in S : n <= m
SetMin(S) == CHOOSE m \in S : \A n \in S : m <= n
Range(s) == {s[i] : i \in 1..Len(s)}

\* ------------------------------------------------------------- the sheet
Headers == <<"id", "name">>
ROW_INDEX_OFFSET == 2
pkColumnIndex == 0
NoKey == 0

COLUMN_COUNT == Len(Headers)
PkCol == pkColumnIndex + 1
BlankRow == [c \in 1..COLUMN_COUNT |-> Blank]
RowIsBlank(row) == \A c \in 1..Len(row) : row[c] = Blank

\* grid[i] is sheet row i + 1; the header row is row 1 and never changes.
getMaxRows(g) == Len(g) + 1

getLastRow(g) ==
  IF \E i \in 1..Len(g) : ~RowIsBlank(g[i])
  THEN 1 + SetMax({i \in 1..Len(g) : ~RowIsBlank(g[i])})
  ELSE 1

\* A row count taken from the size of the sheet, used or not.
rowCountOfMaxRows(g) == getMaxRows(g)

\* rowCount()
rowCount(g) == getLastRow(g)

\* Range.getValues of one row; cells outside the grid read blank.
getRow(g, r) == IF (r - 1) \in 1..Len(g) THEN g[r - 1] ELSE BlankRow

\* Range.setValues of rows at sheet rows r .. r + Len(rows) - 1; the grid grows
\* when the range ends below it.
setValues(g, r, rows) ==
  LET n == Len(rows)
      newLen == Max(Len(g), r - 2 + n)
  IN [i \in 1..newLen |->
        IF i >= r - 1 /\ i <= r - 2 + n THEN rows[i - (r - 2)]
        ELSE IF i <= Len(g) THEN g[i] ELSE BlankRow]

\* Sheet.appendRow: the row lands right below the last row with content.
appendRow(g, row) == setValues(g, getLastRow(g) + 1, <<row>>)

\* _values() without the header row: rows 2 .. getLastRow.
values(g) == SubSeq(g, 1, getLastRow(g) - 1)

\* ------------------------------------------------------------ RecordMapper
Fields == {"_key"} \cup Range(Headers)
Get(rec, f) == IF f \in DOMAIN rec THEN rec[f] ELSE Undefined
HeaderPos(h) == CHOOSE c \in 1..Len(Headers) : Headers[c] = h

getRowAsObject(row, index, headers) ==
  [f \in {"_key"} \cup Range(headers) |->
     IF f = "_key" THEN index + ROW_INDEX_OFFSET
     ELSE row[CHOOSE c \in 1..Len(headers) : headers[c] = f]]

\* The record's values in the reverse of the header order.
recordToRowReversed(rec) ==
  [c \in 1..COLUMN_COUNT |-> ToCell(Get(rec, Headers[COLUMN_COUNT + 1 - c]))]

\* headerRow.map(header => record[header]), as the cells setValues stores.
recordToRow(rec) == [c \in 1..COLUMN_COUNT |-> ToCell(Get(rec, Headers[c]))]
\* The primary-key value of the record as the drift check sees it.
recordPk(rec) == Get(rec, Headers[PkCol])

\* --------------------------------------------------------- CollectionCache
\* data() numbering the kept rows by their place among the kept rows.
materializeRenumbered(g) ==
  LET vals == values(g)
      kept == SelectSeq([i \in 1..Len(vals) |-> i],
                        LAMBDA i : vals[i][PkCol] # Blank)
  IN [k \in 1..Len(kept) |-> getRowAsObject(vals[kept[k]], k - 1, Headers)]

materialize(g) ==
  LET vals == values(g)
      kept == SelectSeq([i \in 1..Len(vals) |-> i],
                        LAMBDA i : vals[i][PkCol] # Blank)
  IN [k \in 1..Len(kept) |-> getRowAsObject(vals[kept[k]], kept[k] - 1, Headers)]

\* The names every object literal inherits: index[name] is defined for them
\* whatever the index holds.
ObjectPrototype == {"constructor"}

\* The property name JavaScript uses for obj[value].
PropName(key, v) == IF key = "_key" THEN v ELSE JsString(v)

\* An index that keeps the first record of each value.
buildIndexFirstWins(data, key) ==
  LET K == {PropName(key, data[i][key]) : i \in 1..Len(data)}
  IN [k \in K |->
        data[SetMin({i \in 1..Len(data) : PropName(key, data[i][key]) = k})]]

buildIndex(data, key) ==
  LET K == {PropName(key, data[i][key]) : i \in 1..Len(data)}
  IN [k \in K |->
        data[SetMax({i \in 1..Len(data) : PropName(key, data[i][key]) = k})]]

buildRelated(data, key) ==
  LET K == {PropName(key, data[i][key]) : i \in 1..Len(data)}
  IN [k \in K |-> SelectSeq(data, LAMBDA rec : PropName(key, rec[key]) = k)]

NullData == [null |-> TRUE, recs |-> <<>>]
Built(recs) == [null |-> FALSE, recs |-> recs]
NoIndexes == <<>>

VARIABLES
  grid,       \* the data rows of the sheet
  _data,      \* this._data: null, or the materialized records
  _index,     \* this._index: key -> (value -> record)
  _related,   \* this._related: key -> (value -> records)
  last,       \* the last call: its name, its outcome, its store writes
  ret,        \* the value the last call returned
  synced,     \* the last successful mutating call while no store change followed it
  pf,         \* the preflight instance, if one was made
  oob,        \* out-of-band edits so far
  calls,      \* calls so far, the reads data(), index() and related() apart
  adding,     \* the add or addOne call that has read rowCount() and not yet written
  pc,         \* SpecConc: where each execution stands in its batch() call
  loc,        \* SpecConc: the locals of each execution's batch() call
  lockHolder, \* SpecConc: the execution holding the script lock, if any
  seen,       \* SpecConc: what the last read of the sheet observed
  doc,        \* SpecReg: the document, its sheets and its copy
  registry    \* SpecReg: the SheetDataAccess instance, if one was made

cacheVars == <<_data, _index, _related>>
seqVars == <<_data, _index, _related, last, ret, synced, pf, oob, calls, adding>>
concVars == <<pc, loc, lockHolder, seen>>
regVars == <<doc, registry>>
vars == <<grid, seqVars, concVars, regVars>>

\* The instance's cache as one value, for the operators below.
Cache(d, i, r) == [data |-> d, index |-> i, related |-> r]

\* clearCached that resets _data alone.
clearCachedDataOnly(c) == [c EXCEPT !.data = NullData]

clearCached(c) == Cache(NullData, NoIndexes, NoIndexes)

data(g, c) ==
  IF c.data.null THEN [c EXCEPT !.data = Built(materialize(g))] ELSE c

\* index() reading the sheet for itself and leaving data() as it was.
indexFromStore(g, c, key) ==
  IF key \in DOMAIN c.index THEN c
  ELSE [c EXCEPT !.index = (key :> buildIndex(materialize(g), key)) @@ @]

index(g, c, key) ==
  IF key \in DOMAIN c.index THEN c
  ELSE LET c1 == data(g, c)
       IN [c1 EXCEPT !.index = (key :> buildIndex(c1.data.recs, key)) @@ @]

\* The reduce of related() tests obj[value] and pushes to it when it is truthy:
\* for a value naming an inherited property it pushes to that property, which
\* is no array, and the call throws before anything is cached.
relatedThrows(recs, key) ==
  \E i \in 1..Len(recs) : PropName(key, recs[i][key]) \in ObjectPrototype

related(g, c, key) ==
  IF key \in DOMAIN c.related THEN c
  ELSE LET c1 == data(g, c)
       IN IF relatedThrows(c1.data.recs, key) THEN c1
          ELSE [c1 EXCEPT !.related = (key :> buildRelated(c1.data.recs, key)) @@ @]

\* find(key, '_key'): the cache after the call and the record found, if any.
find(g, c, key) ==
  LET c1 == index(g, c, "_key")
      idx == c1.index["_key"]
  IN [c |-> c1, found |-> key \in DOMAIN idx,
      rec |-> IF key \in DOMAIN idx THEN idx[key] ELSE <<>>]

\* ---------------------------------------------------------- MutationEngine
\* The errors the calls throw, named as in the error taxonomy.
OK == "ok"
StaleWriteError == "StaleWriteError"
WriteConflictError == "WriteConflictError"
LockTimeoutError == "LockTimeoutError"
NotFoundError == "NotFoundError"
TransactionAlreadyCompleteError == "TransactionAlreadyCompleteError"
ConflictError == "ConflictError"
TypeError == "TypeError"

\* The result of a call: the sheet and the cache it leaves, its outcome, the
\* value it returns, the store writes it made (in order), and the records it
\* was given as it leaves them (a call may set their _key).
Res(g, c, outcome, r, log, args) ==
  [grid |-> g, c |-> c, outcome |-> outcome, ret |-> r, log |-> log, args |-> args]

\* A store write: <<kind, first row, number of rows>>.
W(kind, row, n) == <<kind, row, n>>

\* Every record of the model has the field _key; NoKey stands for an absent or
\* null _key.
Key(rec) == rec["_key"]
isNew(rec) == Key(rec) = NoKey
SetKey(rec, k) ==
  [f \in DOMAIN rec \cup {"_key"} |-> IF f = "_key" THEN k ELSE rec[f]]
\* !!v: the empty text, the number 0 and undefined are falsy.
Truthy(v) == v \notin {Blank, Num0, Undefined}

\* enforceUnique(rec, prop): the cache after the call and whether it throws.
\* A record without _key is looked up by property name in index(prop); a
\* record with one is compared, by value, with the other records of data().
\* !rec._key holds of the records isNew holds of: a _key is a row number.
enforceUnique(g, c, rec, prop) ==
  IF isNew(rec)
  THEN LET c1 == index(g, c, prop)
           name == PropName(prop, Get(rec, prop))
       IN [c |-> c1,
           outcome |-> IF name \in DOMAIN c1.index[prop] \cup ObjectPrototype
                       THEN ConflictError ELSE OK]
  ELSE LET c1 == data(g, c)
           others == SelectSeq(c1.data.recs, LAMBDA oth : oth["_key"] # rec["_key"])
       IN [c |-> c1,
           outcome |-> IF Get(rec, prop) \in {others[i][prop] : i \in 1..Len(others)}
                       THEN ConflictError ELSE OK]

\* The check comparing the values themselves (!==) and not their texts.
inSyncStrict(g, rec) == getRow(g, Key(rec))[PkCol] = recordPk(rec)

\* The last-second check of _updateRow and delete: the primary-key cell of the
\* row at the record's _key against the record's primary-key value, as text.
inSync(g, rec) ==
  JsString(getRow(g, Key(rec))[PkCol]) = JsString(recordPk(rec))

\* getRange(record._key, ...) needs a row number: with none the store call
\* throws before anything is read or written.
StoreError == "StoreError"

_updateRow(g, rec) ==
  IF isNew(rec) THEN [grid |-> g, outcome |-> StoreError, log |-> <<>>]
  ELSE IF ~inSync(g, rec)
  THEN [grid |-> g, outcome |-> StaleWriteError, log |-> <<>>]
  ELSE [grid |-> setValues(g, Key(rec), <<recordToRow(rec)>>), outcome |-> OK,
        log |-> <<W("setValues", Key(rec), 1)>>]

\* delete removing the row from the sheet, the rows below moving up.
_deleteRowRemoving(g, rec) ==
  IF isNew(rec) THEN [grid |-> g, outcome |-> StoreError, log |-> <<>>]
  ELSE IF JsString(getRow(g, Key(rec))[PkCol]) # JsString(recordPk(rec))
  THEN [grid |-> g, outcome |-> StaleWriteError, log |-> <<>>]
  ELSE [grid |-> SubSeq(g, 1, Key(rec) - 2) \o SubSeq(g, Key(rec), Len(g)),
        outcome |-> OK, log |-> <<W("setValues", Key(rec), 1)>>]

\* delete blanking the row without the last-second check.
_deleteRowUnchecked(g, rec) ==
  IF isNew(rec) THEN [grid |-> g, outcome |-> StoreError, log |-> <<>>]
  ELSE [grid |-> setValues(g, Key(rec), <<BlankRow>>), outcome |-> OK,
        log |-> <<W("setValues", Key(rec), 1)>>]

_deleteRow(g, rec) ==
  IF isNew(rec) THEN [grid |-> g, outcome |-> StoreError, log |-> <<>>]
  ELSE IF ~inSync(g, rec)
  THEN [grid |-> g, outcome |-> StaleWriteError, log |-> <<>>]
  ELSE [grid |-> setValues(g, Key(rec), <<BlankRow>>), outcome |-> OK,
        log |-> <<W("setValues", Key(rec), 1)>>]

\* records.forEach(...) of update (del = FALSE) and delete (del = TRUE) from
\* record i on: the first record that is out of sync throws, the rows of the
\* records before it stay written.
RECURSIVE forEachRow(_, _, _, _)
forEachRow(g, recs, i, del) ==
  IF i > Len(recs) THEN [grid |-> g, outcome |-> OK, log |-> <<>>]
  ELSE LET u == IF del THEN _deleteRow(g, recs[i]) ELSE _updateRow(g, recs[i])
       IN IF u.outcome # OK THEN u
          ELSE LET rest == forEachRow(u.grid, recs, i + 1, del)
               IN [rest EXCEPT !.log = u.log \o @]

update(g, c, recs) ==
  IF Len(recs) = 0 THEN Res(g, c, OK, <<>>, <<>>, recs)
  ELSE LET u == forEachRow(g, recs, 1, FALSE)
       IN IF u.outcome = OK
          THEN Res(u.grid, clearCached(c), OK, recs, u.log, recs)
          ELSE Res(u.grid, c, u.outcome, <<>>, u.log, recs)

delete(g, c, recs) ==
  LET u == forEachRow(g, recs, 1, TRUE)
  IN IF u.outcome = OK
     THEN Res(u.grid, clearCached(c), OK, <<>>, u.log, recs)
     ELSE Res(u.grid, c, u.outcome, <<>>, u.log, recs)

\* add from the place where rowCount() returned n: g is the sheet when the
\* destination range is read and written.
addFrom(n, g, c, recs) ==
  IF Len(recs) = 0 THEN Res(g, c, OK, <<>>, <<>>, recs)
  ELSE LET keyed == [i \in 1..Len(recs) |-> SetKey(recs[i], n + (i - 1) + 1)]
           rows == [i \in 1..Len(recs) |-> recordToRow(keyed[i])]
       IN IF Truthy(getRow(g, n + 1)[PkCol])
          THEN Res(g, c, WriteConflictError, <<>>, <<>>, keyed)
          ELSE Res(setValues(g, n + 1, rows), clearCached(c), OK, keyed,
                   <<W("setValues", n + 1, Len(recs))>>, keyed)

\* add run without another execution in between.
add(g, c, recs) == addFrom(rowCount(g), g, c, recs)

\* TextFinder's default match: the cell's text contains the searched text.
\* Over the texts of the model only the header "id" has a proper part ("d").
Contains(hay, needle) ==
  hay = needle \/ <<hay, needle>> \in {<<"id", "d">>, <<"name", "a">>}

\* The text of the primary-key cell of sheet row r (row 1 is the header row).
pkText(g, r) == IF r = 1 THEN Headers[PkCol] ELSE JsString(getRow(g, r)[PkCol])

\* The cells the text finder of addOne searches, and whether one matches:
\* getRange(startingRowCount, pk + 1, rowCount()) holds rowCount() rows from
\* row startingRowCount on, of the sheet g1 after the append.
finderRows(startingRowCount, g1) ==
  startingRowCount .. (startingRowCount + rowCount(g1) - 1)
finderHits(startingRowCount, g1, rec) ==
  {r \in finderRows(startingRowCount, g1) :
     Contains(pkText(g1, r), JsString(recordPk(rec)))}

\* addOne checking the cell below the row count it read, and writing there.
addOneChecked(startingRowCount, g, c, rec) ==
  IF getRow(g, startingRowCount + 1)[PkCol] # Blank
  THEN Res(g, c, WriteConflictError, <<>>, <<>>, <<rec>>)
  ELSE LET saved == SetKey(rec, startingRowCount + 1)
       IN Res(setValues(g, startingRowCount + 1, <<recordToRow(rec)>>),
              clearCached(c), OK, <<saved>>,
              <<W("setValues", startingRowCount + 1, 1)>>, <<saved>>)

\* addOne from the place where rowCount() returned startingRowCount: g is the
\* sheet when the row is appended.
addOneFrom(startingRowCount, g, c, rec) ==
  LET row == recordToRow(rec)
      g1 == appendRow(g, row)
      hits == finderHits(startingRowCount, g1, rec)
      log == <<W("appendRow", getLastRow(g) + 1, 1)>>
  IN IF hits = {}
     THEN Res(g1, c, WriteConflictError, <<>>, log, <<rec>>)
     ELSE LET found == CHOOSE r \in hits : \A q \in hits : r <= q
              saved == SetKey(rec, found)
          IN Res(g1, clearCached(c), OK, <<saved>>, log, <<saved>>)

\* addOne run without another execution in between.
addOne(g, c, rec) == addOneFrom(rowCount(g), g, c, rec)

Updates(recs) == SelectSeq(recs, LAMBDA rec : ~isNew(rec))
Adds(recs) == SelectSeq(recs, LAMBDA rec : isNew(rec))

\* The records of recs with the new ones replaced, in order, by those of keyed.
RECURSIVE mergeAdds(_, _)
mergeAdds(recs, keyed) ==
  IF Len(recs) = 0 THEN <<>>
  ELSE IF isNew(Head(recs))
       THEN <<Head(keyed)>> \o mergeAdds(Tail(recs), Tail(keyed))
       ELSE <<Head(recs)>> \o mergeAdds(Tail(recs), keyed)

\* upsert returning what update returned followed by what add returned.
upsertConcatenating(g, c, recs) ==
  IF Len(recs) = 0 THEN Res(g, c, OK, recs, <<>>, recs)
  ELSE LET u == update(g, c, Updates(recs))
       IN IF u.outcome # OK THEN Res(u.grid, u.c, u.outcome, <<>>, u.log, recs)
          ELSE LET a == add(u.grid, u.c, Adds(recs))
               IN IF a.outcome # OK
                  THEN Res(a.grid, a.c, a.outcome, <<>>, u.log \o a.log, recs)
                  ELSE Res(a.grid, clearCached(a.c), OK, u.ret \o a.ret,
                           u.log \o a.log, recs)

upsert(g, c, recs) ==
  IF Len(recs) = 0 THEN Res(g, c, OK, recs, <<>>, recs)
  ELSE LET u == update(g, c, Updates(recs))
       IN IF u.outcome # OK THEN Res(u.grid, u.c, u.outcome, <<>>, u.log, recs)
          ELSE LET a == add(u.grid, u.c, Adds(recs))
                   all == mergeAdds(recs, a.args)
               IN IF a.outcome # OK
                  THEN Res(a.grid, a.c, a.outcome, <<>>, u.log \o a.log, all)
                  ELSE Res(a.grid, clearCached(a.c), OK, all, u.log \o a.log, all)

upsertOne(g, c, rec) ==
  IF isNew(rec) THEN addOne(g, c, rec)
  ELSE LET u == update(g, c, <<rec>>) IN [u EXCEPT !.args = <<rec>>]

\* { ...existing, ...patch }
merge(existing, patch) ==
  [f \in DOMAIN existing \cup DOMAIN patch |->
     IF f \in DOMAIN patch THEN patch[f] ELSE existing[f]]

\* patches.map(...) from patch i on: the cache the finds leave, and the merged
\* records unless a patch's _key is not found.
RECURSIVE patchMap(_, _, _, _)
patchMap(g, c, patches, i) ==
  IF i > Len(patches) THEN [c |-> c, outcome |-> OK, recs |-> <<>>]
  ELSE LET f == find(g, c, Key(patches[i]))
       IN IF ~f.found THEN [c |-> f.c, outcome |-> NotFoundError, recs |-> <<>>]
          ELSE LET rest == patchMap(g, f.c, patches, i + 1)
               IN [rest EXCEPT !.recs = <<merge(f.rec, patches[i])>> \o @]

\* patch looking up and updating one patch after the other.
RECURSIVE patchEachInTurn(_, _, _)
patchEachInTurn(g, c, patches) ==
  IF Len(patches) = 0 THEN Res(g, c, OK, <<>>, <<>>, patches)
  ELSE LET f == find(g, c, Key(Head(patches)))
       IN IF ~f.found THEN Res(g, f.c, NotFoundError, <<>>, <<>>, patches)
          ELSE LET u == update(g, f.c, <<merge(f.rec, Head(patches))>>)
               IN IF u.outcome # OK THEN [u EXCEPT !.args = patches]
                  ELSE LET rest == patchEachInTurn(u.grid, f.c, Tail(patches))
                       IN [rest EXCEPT !.log = u.log \o @, !.args = patches,
                                       !.ret = u.ret \o @,
                                       !.c = clearCached(@)]

patch(g, c, patches) ==
  IF Len(patches) = 0 THEN Res(g, c, OK, <<>>, <<>>, patches)
  ELSE LET m == patchMap(g, c, patches, 1)
       IN IF m.outcome # OK THEN Res(g, m.c, m.outcome, <<>>, <<>>, patches)
          ELSE LET u == update(g, m.c, m.recs) IN [u EXCEPT !.args = patches]

\* Range.clear of sheet row r, and Sheet.deleteRows(r, n).
clearRow(g, r) == IF (r - 1) \in 1..Len(g) THEN [g EXCEPT ![r - 1] = BlankRow] ELSE g
deleteRows(g, r, n) == SubSeq(g, 1, r - 2) \o SubSeq(g, r - 1 + n, Len(g))

\* wipe(rows): the rows it counts, the sheet it leaves and its store writes.
\* A call without argument, or with a negative one, takes every row.
AllRows == -1
rowsToWipe(rows, maxRows) ==
  IF rows >= 0 THEN SetMin({rows, maxRows - 1}) ELSE maxRows - 1
remaining(rows, maxRows) == rowsToWipe(rows, maxRows) - 1

wipe(g, rows) ==
  LET maxRows == getMaxRows(g)
  IN IF rowsToWipe(rows, maxRows) = 0 THEN [grid |-> g, log |-> <<>>]
     ELSE IF remaining(rows, maxRows) > 0
          THEN [grid |-> deleteRows(clearRow(g, 2), 3, remaining(rows, maxRows)),
                log |-> <<W("clear", 2, 1), W("deleteRows", 3, remaining(rows, maxRows))>>]
          ELSE [grid |-> clearRow(g, 2), log |-> <<W("clear", 2, 1)>>]

\* defrag(): the rows with a primary key, written back from row 2 on, and the
\* rows below them deleted. The cleared range is maxRow rows from row 2, one
\* row more than the sheet has; the sheet grows by that row until deleteRows
\* removes it. Neither wipe, defrag nor archive calls clearCached.
defragDataUnfiltered(g) == values(g)

defragData(g) == SelectSeq(values(g), LAMBDA row : row[PkCol] # Blank)

defrag(g, c) ==
  LET rows == defragData(g)
      maxRow == getMaxRows(g)
  IN IF Len(rows) = 0 \/ Len(rows) + 1 = maxRow THEN Res(g, c, OK, <<>>, <<>>, <<>>)
     ELSE LET cleared == [i \in 1..maxRow |-> BlankRow]
              written == setValues(cleared, 2, rows)
          IN Res(deleteRows(written, Len(rows) + 2, maxRow - Len(rows)), c, OK, <<>>,
                 <<W("clear", 2, maxRow), W("setValues", 2, Len(rows)),
                   W("deleteRows", Len(rows) + 2, maxRow - Len(rows))>>, <<>>)

\* The collection's wipe() as a call of its own.
wipeCall(g, c, rows) ==
  LET w == wipe(g, rows) IN Res(w.grid, c, OK, <<>>, w.log, <<>>)

\* archive(id): openById and copyTo may throw; wipe() follows the copy.
archive(g, c, copied) ==
  IF copied THEN wipeCall(g, c, AllRows) ELSE Res(g, c, StoreError, <<>>, <<>>, <<>>)

\* ------------------------------------------------------------ SearchEngine
\* The cells of sheet row r as getValues gives them; row 1 is the header row.
sheetRow(g, r) == IF r = 1 THEN Headers ELSE getRow(g, r)

\* The cells the text finder of the sheet matches, row by row: the whole
\* cell text with matchCell, a part of it without.
finderMatches(text, q, matchCell) ==
  text # Blank /\ IF matchCell THEN text = q ELSE Contains(text, q)
findAll(g, q, matchCell) ==
  LET cells == [k \in 1..(getMaxRows(g) * COLUMN_COUNT) |->
                  [row |-> ((k - 1) \div COLUMN_COUNT) + 1,
                   col |-> ((k - 1) % COLUMN_COUNT) + 1]]
  IN SelectSeq(cells, LAMBDA rng :
       finderMatches(JsString(sheetRow(g, rng.row)[rng.col]), q, matchCell))

\* fts answering from the records the instance has cached.
ftsFromCache(g, c, q, matchCell) ==
  LET c1 == data(g, c)
  IN SelectSeq(c1.data.recs, LAMBDA rec :
       \E col \in 1..COLUMN_COUNT :
         finderMatches(JsString(rec[Headers[col]]), q, matchCell))

\* fts({ q, matchCell }): one record per matching cell, built from the row
\* read at that moment; the cache is not touched.
fts(g, c, q, matchCell) ==
  LET ranges == findAll(g, q, matchCell)
  IN [k \in 1..Len(ranges) |->
        getRowAsObject(sheetRow(g, ranges[k].row),
                       ranges[k].row - ROW_INDEX_OFFSET, Headers)]

\* lookup(val, key): its test, !this._data === null, compares a boolean with
\* null and never holds, so the search runs whatever is cached.
lookup(g, c, val, key) ==
  LET rows == SelectSeq(fts(g, c, JsString(val), TRUE), LAMBDA r : r[key] = val)
  IN IF Len(rows) = 0 THEN <<>> ELSE <<rows[1]>>

\* A range assignment that stops before the last row of the block.
writeBlockPartial(g, block) == setValues(g, 2, SubSeq(block, 1, Len(block) - 1))

\* The one range assignment of batch: the block at row 2.
writeBlock(g, block) == setValues(g, 2, block)

\* Array.prototype.splice(start, 1, row)
splice(block, start, row) ==
  LET s == IF start > Len(block) THEN Len(block) ELSE start
  IN SubSeq(block, 1, s) \o <<row>> \o SubSeq(block, s + 2, Len(block))

RECURSIVE spliceAll(_, _)
spliceAll(block, updates) ==
  IF Len(updates) = 0 THEN block
  ELSE spliceAll(splice(block, Key(Head(updates)) - ROW_INDEX_OFFSET,
                        recordToRow(Head(updates))),
                 Tail(updates))

\* The block batch writes: the data rows read from the store with the updates
\* spliced in and the new records pushed at the end.
batchData(g, recs) ==
  spliceAll(values(g), Updates(recs))
    \o [i \in 1..Len(Adds(recs)) |-> recordToRow(Adds(recs)[i])]

\* batch wiping the sheet before it asks for the lock.
batchWipesFirst(g, c, recs, hasLock) ==
  IF Len(recs) = 0 THEN Res(g, c, OK, recs, <<>>, recs)
  ELSE LET block == batchData(g, recs)
           w == wipe(g, AllRows)
       IN IF ~hasLock THEN Res(w.grid, c, LockTimeoutError, <<>>, w.log, recs)
          ELSE Res(writeBlock(w.grid, block), clearCached(c), OK, recs,
                   w.log \o <<W("setValues", 2, Len(block))>>, recs)

\* hasLock: whether tryLock got the script lock within its wait.
batch(g, c, recs, hasLock) ==
  IF Len(recs) = 0 THEN Res(g, c, OK, recs, <<>>, recs)
  ELSE IF ~hasLock THEN Res(g, c, LockTimeoutError, <<>>, <<>>, recs)
  ELSE LET block == batchData(g, recs)
           w == wipe(g, AllRows)
       IN Res(writeBlock(w.grid, block), clearCached(c), OK, recs,
              w.log \o <<W("setValues", 2, Len(block))>>, recs)

\* ------------------------------------------------------ TransactionPreflight
\* The schema collaborator is the caller's. Its exec (toStorage) stands here
\* as a hook that rejects the id '1' and sets name to a normal form.
ValidationError == "ValidationError"
Normalized == "n"
Rejects(rec) == Get(rec, "id") = "1"
exec(rec) == [rec EXCEPT !["name"] = Normalized]

\* _getRecordsToSave(records): copies without a schema; with one, exec on
\* each record in turn, which throws on the first it rejects. hook counts the
\* executions of exec.
_getRecordsToSave(hasModel, recs) ==
  LET bad == {i \in 1..Len(recs) : Rejects(recs[i])}
  IN IF ~hasModel THEN [outcome |-> OK, recs |-> recs, hook |-> 0]
     ELSE IF bad # {}
          THEN [outcome |-> ValidationError, recs |-> <<>>, hook |-> SetMin(bad)]
          ELSE [outcome |-> OK, recs |-> [i \in 1..Len(recs) |-> exec(recs[i])],
                hook |-> Len(recs)]

\* !bypassSchema ? this._getRecordsToSave(records) : records
recordsToSave(bypassSchema, hasModel, recs) ==
  IF bypassSchema THEN [outcome |-> OK, recs |-> recs, hook |-> 0]
  ELSE _getRecordsToSave(hasModel, recs)

NoPreflight ==
  [made |-> FALSE, recs |-> <<>>, transacted |-> FALSE,
   invoked |-> 0, ran |-> 0, completedAt |-> 0, writes |-> 0,
   hasModel |-> FALSE, hook |-> 0]

\* preflight(records): the records to save and the transacted flag; invoked,
\* ran, completedAt and writes count the commit actions called and those that
\* ran their operation, tell which call completed, and count the store writes.
\* No handle is made when _getRecordsToSave throws.
preflight(hasModel, recs) ==
  LET s == _getRecordsToSave(hasModel, recs)
  IN [made |-> s.outcome = OK, recs |-> s.recs, transacted |-> FALSE,
      invoked |-> 0, ran |-> 0, completedAt |-> 0, writes |-> 0,
      hasModel |-> hasModel, hook |-> s.hook]

\* Commit actions that hand the records to the schema again.
commitSavedValidating(p) == recordsToSave(FALSE, p.hasModel, p.recs)

\* The commit actions pass bypassSchema = true to their operation.
commitSaved(p) == recordsToSave(TRUE, p.hasModel, p.recs)

CommitActions == {"addOne", "add", "update", "batch", "upsert", "upsertOne"}

\* The operation a commit action is bound to, on the preflight's records.
commitFn(name, g, c, recs, hasLock) ==
  CASE name = "addOne" ->
         IF Len(recs) = 0 THEN Res(g, c, OK, <<>>, <<>>, recs)
         ELSE LET r == addOne(g, c, recs[1])
              IN [r EXCEPT !.args = r.args \o Tail(recs)]
    [] name = "add" -> add(g, c, recs)
    [] name = "update" -> update(g, c, recs)
    [] name = "batch" -> batch(g, c, recs, hasLock)
    [] name = "upsert" -> upsert(g, c, recs)
    [] name = "upsertOne" ->
         IF Len(recs) = 0 THEN Res(g, c, OK, <<>>, <<>>, recs)
         ELSE LET r == upsertOne(g, c, recs[1])
              IN [r EXCEPT !.args = r.args \o Tail(recs)]

\* The preflight instance after its operation ran with result r.
ranWith(p, r) ==
  [res |-> r,
   pf |-> [p EXCEPT !.invoked = @ + 1, !.ran = @ + 1, !.recs = r.args,
                    !.writes = @ + Len(r.log),
                    !.transacted = (r.outcome = OK),
                    !.completedAt = IF r.outcome = OK THEN p.invoked + 1 ELSE @]]

\* transact that never looks at the transacted flag.
transactUnguarded(p, name, g, c, hasLock) ==
  LET r == commitFn(name, g, c, commitSaved(p).recs, hasLock)
  IN [res |-> r,
      pf |-> [p EXCEPT !.invoked = @ + 1, !.ran = @ + 1, !.recs = r.args,
                       !.writes = @ + Len(r.log),
                       !.transacted = (r.outcome = OK),
                       !.completedAt = IF r.outcome = OK /\ @ = 0 THEN p.invoked + 1 ELSE @]]

\* transact(fn): the result of the call and the preflight instance after it.
transact(p, name, g, c, hasLock) ==
  IF p.transacted
  THEN [res |-> Res(g, c, TransactionAlreadyCompleteError, <<>>, <<>>, p.recs),
        pf |-> [p EXCEPT !.invoked = @ + 1]]
  ELSE LET s == commitSaved(p)
       IN ranWith([p EXCEPT !.hook = @ + s.hook],
                  commitFn(name, g, c, s.recs, hasLock))

\* ------------------------------------------------------------------ inputs
InputIds == {"a", "1"}
InputNames == {"y"}
Keys == ROW_INDEX_OFFSET .. (MaxRows + ROW_INDEX_OFFSET - 1)
Records == [_key : Keys \cup {NoKey}, id : InputIds, name : InputNames]
Existing == {rec \in Records : ~isNew(rec)}
New == {rec \in Records : isNew(rec)}
\* A patch names the fields to change: all of them, name alone or id alone;
\* its _key may be missing.
Patches ==
  Existing \cup [_key : Keys \cup {NoKey}, name : InputNames]
           \cup [_key : Keys, id : InputIds]
SeqsUpTo(S, m) == UNION {[1..n -> S] : n \in 0..m}
SeqsOf(S) == SeqsUpTo(S, MaxRecs)

InitRows == {<<"a", "x">>, <<Num1, "x">>, BlankRow}
CellValues(c) ==
  IF c = PkCol THEN {Blank, "a", Num1, Num0} ELSE {Blank, "z"} \cup ObjectPrototype

Procs == {"e1", "e2"}
NoProc == "none"
NoLocals ==
  [recs |-> <<>>, block |-> <<>>, maxRows |-> 0, pre |-> <<>>,
   startingRowCount |-> 0, found |-> NoKey]
NotSeen == [during |-> NoProc, at |-> "idle", rows |-> <<>>, pre |-> <<>>, post |-> <<>>]

\* ------------------------------------------------------ one instance (Spec)
CacheKind ==
  IF _data.null THEN "unbuilt"
  ELSE IF DOMAIN _index = {} /\ DOMAIN _related = {} THEN "data" ELSE "indexed"
CacheStale == ~_data.null /\ _data.recs # materialize(grid)

NotSynced == [op |-> "none", cacheWas |-> "none", staleWas |-> FALSE]
NotAdding == [op |-> "none", recs |-> <<>>, rowCount |-> 0, raced |-> FALSE]
cache == Cache(_data, _index, _related)
Last(name, args, lock, outcome, log) ==
  [op |-> name, args |-> args, lock |-> lock, outcome |-> outcome, log |-> log]

\* No document is open but in SpecReg.
NoDoc == [sheets |-> <<>>, grids |-> <<>>, copied |-> FALSE, moved |-> FALSE]
NoRegistry ==
  [made |-> FALSE, hasSchema |-> FALSE, names |-> <<>>, schema |-> <<>>,
   outcome |-> OK, step |-> 0, archived |-> FALSE]

InitCollection ==
  /\ grid \in SeqsUpTo(InitRows, MaxRows)
  /\ _data = NullData
  /\ _index = NoIndexes
  /\ _related = NoIndexes
  /\ last = Last("new", <<>>, "untried", OK, <<>>)
  /\ ret = <<>>
  /\ synced = NotSynced
  /\ pf = NoPreflight
  /\ oob = 0
  /\ calls = 0
  /\ adding = NotAdding
  /\ pc = [p \in Procs |-> "idle"]
  /\ loc = [p \in Procs |-> NoLocals]
  /\ lockHolder = NoProc
  /\ seen = NotSeen

Init == InitCollection /\ doc = NoDoc /\ registry = NoRegistry

\* The state a call leaves: r is its result, args the records it was given.
Effect(name, r, args, lock) ==
  /\ grid' = r.grid
  /\ _data' = r.c.data
  /\ _index' = r.c.index
  /\ _related' = r.c.related
  /\ last' = Last(name, args, lock, r.outcome, r.log)
  /\ ret' = r.ret
  /\ synced' = IF r.outcome = OK /\ Len(args) > 0
               THEN [op |-> name, cacheWas |-> CacheKind, staleWas |-> CacheStale]
               ELSE IF r.log # <<>> THEN NotSynced
               ELSE synced

\* A call runs from its first to its last statement.
Call(name, r, args, lock) ==
  /\ calls < MaxCalls
  /\ adding.op = "none"
  /\ calls' = calls + 1
  /\ Effect(name, r, args, lock)
  /\ UNCHANGED <<pf, oob, adding, concVars, regVars>>

\* add and addOne read rowCount() and then turn to the rows below it; another
\* execution may write to the sheet between the two (OutOfBand).
Begin(name, recs) ==
  /\ calls < MaxCalls
  /\ adding.op = "none"
  /\ adding' = [op |-> name, recs |-> recs, rowCount |-> rowCount(grid), raced |-> FALSE]
  /\ UNCHANGED <<grid, cacheVars, last, ret, synced, pf, oob, calls, concVars, regVars>>

\* adding keeps what the call had read, for the record.
Finish(name, r) ==
  /\ adding.op = name
  /\ adding' = [adding EXCEPT !.op = "none"]
  /\ calls' = calls + 1
  /\ Effect(name, r, adding.recs, "untried")
  /\ UNCHANGED <<pf, oob, concVars, regVars>>

\* The reads leave the store alone and return the cached value.
ReadAs(name, c, r, outcome) ==
  /\ adding.op = "none"
  /\ _data' = c.data
  /\ _index' = c.index
  /\ _related' = c.related
  /\ last' = Last(name, <<>>, "untried", outcome, <<>>)
  /\ ret' = r
  /\ UNCHANGED <<grid, synced, pf, oob, calls, adding, concVars, regVars>>

Read(name, c, r) == ReadAs(name, c, r, OK)

IndexKeys == {"id"}
RelatedKeys == {"name"}

Data == LET c == data(grid, cache) IN Read("data", c, c.data.recs)
Index == \E key \in IndexKeys :
  LET c == index(grid, cache, key) IN Read("index", c, <<c.index[key]>>)
Related == \E key \in RelatedKeys :
  LET c == related(grid, cache, key)
  IN IF key \in DOMAIN c.related THEN Read("related", c, <<c.related[key]>>)
     ELSE ReadAs("related", c, <<>>, TypeError)

\* The records enforceUnique is asked about.
UniqueArgs == Records \cup [_key : {NoKey}, id : ObjectPrototype, name : InputNames]

EnforceUnique == \E rec \in UniqueArgs, prop \in IndexKeys :
  LET r == enforceUnique(grid, cache, rec, prop)
  IN /\ calls < MaxCalls
     /\ adding.op = "none"
     /\ calls' = calls + 1
     /\ _data' = r.c.data
     /\ _index' = r.c.index
     /\ _related' = r.c.related
     /\ last' = Last("enforceUnique", <<rec>>, "untried", r.outcome, <<>>)
     /\ ret' = <<>>
     /\ UNCHANGED <<grid, synced, pf, oob, adding, concVars, regVars>>

\* The texts searched for and the values looked up.
Queries == {"a", "1", "d"}
LookupValues == {"a", "1", Num1}

\* A search: the store is read, nothing is written, the cache stays.
Search(name, args, rows) ==
  /\ calls < MaxCalls
  /\ adding.op = "none"
  /\ calls' = calls + 1
  /\ last' = Last(name, <<args>>, "untried", OK, <<W("findAll", 1, getMaxRows(grid))>>)
  /\ ret' = rows
  /\ UNCHANGED <<grid, cacheVars, synced, pf, oob, adding, concVars, regVars>>

Fts == \E q \in Queries, matchCell \in BOOLEAN :
  Search("fts", [q |-> q, matchCell |-> matchCell], fts(grid, cache, q, matchCell))
Lookup == \E val \in LookupValues, key \in IndexKeys :
  Search("lookup", [val |-> val, key |-> key], lookup(grid, cache, val, key))

\* stream(size): the chunks the generator yields when it is run to its end.
\* rows is rowCount(), the header row included; chunk i starts at startRow and
\* asks for rowsToGet rows. A request for less than one row either throws or
\* returns no row, as the store decides (lenient).
chunkCount(g, size) == (rowCount(g) + size - 1) \div size
startRow(i, size) == i * size + ROW_INDEX_OFFSET
rowsToGet(g, size, i) == SetMin({rowCount(g) - startRow(i, size), size})
chunk(g, size, i) ==
  LET kept == SelectSeq([k \in 1..Max(rowsToGet(g, size, i), 0) |-> k],
                        LAMBDA k : getRow(g, startRow(i, size) + k - 1)[PkCol] # Blank)
  IN [k \in 1..Len(kept) |->
        getRowAsObject(getRow(g, startRow(i, size) + kept[k] - 1),
                       startRow(i, size) - ROW_INDEX_OFFSET + kept[k] - 1, Headers)]
stream(g, size, lenient) ==
  LET n == chunkCount(g, size)
      short == {i \in 0..(n - 1) : rowsToGet(g, size, i) < 1}
      yielded == IF lenient \/ short = {} THEN n ELSE SetMin(short)
  IN [chunks |-> [k \in 1..yielded |-> chunk(g, size, k - 1)],
      outcome |-> IF yielded = n THEN OK ELSE StoreError]

RECURSIVE Flatten(_)
Flatten(chunks) ==
  IF chunks = <<>> THEN <<>> ELSE Head(chunks) \o Flatten(Tail(chunks))

\* The generator run to its end: ret is the concatenation of its chunks, the
\* log has one getSheetValues per chunk asked for.
ChunkSizes == 1..(MaxRows + 1)
Stream == \E size \in ChunkSizes, lenient \in BOOLEAN :
  /\ calls < MaxCalls
  /\ adding.op = "none"
  /\ calls' = calls + 1
  /\ \E s \in {stream(grid, size, lenient)} :
       /\ last' = Last("stream", <<[size |-> size]>>, "untried", s.outcome,
                       [k \in 1..Len(s.chunks) |->
                          W("findAll", startRow(k - 1, size), rowsToGet(grid, size, k - 1))])
       /\ ret' = Flatten(s.chunks)
  /\ UNCHANGED <<grid, cacheVars, synced, pf, oob, adding, concVars, regVars>>

\* A call without records.
Run(name, r) == Call(name, r, <<>>, "untried")

\* wipe() and wipe(rows); the argument is kept in last.args.
WipeArgs == {AllRows} \cup 0..(MaxRows + 1)
Wipe == \E rows \in WipeArgs :
  /\ calls < MaxCalls
  /\ adding.op = "none"
  /\ calls' = calls + 1
  /\ \E r \in {wipeCall(grid, cache, rows)} :
       /\ grid' = r.grid
       /\ last' = Last("wipe", <<[rows |-> rows]>>, "untried", r.outcome, r.log)
       /\ ret' = r.ret
       /\ synced' = IF r.log # <<>> THEN NotSynced ELSE synced
  /\ UNCHANGED <<cacheVars, pf, oob, adding, concVars, regVars>>
Defrag == Run("defrag", defrag(grid, cache))
Archive == \E copied \in BOOLEAN : Run("archive", archive(grid, cache, copied))

Update == \E recs \in SeqsOf(Existing) :
  Call("update", update(grid, cache, recs), recs, "untried")
Delete == \E recs \in SeqsOf(Existing) :
  Call("delete", delete(grid, cache, recs), recs, "untried")
\* add([]) returns at once; add of records runs in two steps.
Add == \E recs \in SeqsOf(New) :
  IF Len(recs) = 0 THEN Call("add", add(grid, cache, recs), recs, "untried")
  ELSE Begin("add", recs)
AddWrite ==
  Finish("add", addFrom(adding.rowCount, grid, cache, adding.recs))

AddOne == \E rec \in New : Begin("addOne", <<rec>>)
AddOneAppend ==
  Finish("addOne", addOneFrom(adding.rowCount, grid, cache, adding.recs[1]))
Upsert == \E recs \in SeqsOf(Records) :
  Call("upsert", upsert(grid, cache, recs), recs, "untried")
UpsertOne == \E rec \in Records :
  Call("upsertOne", upsertOne(grid, cache, rec), <<rec>>, "untried")
Patch == \E recs \in SeqsOf(Patches) :
  Call("patch", patch(grid, cache, recs), recs, "untried")

\* What became of the script lock in a batch call: batch([]) returns before
\* it asks for the lock.
LockResult(recs, hasLock) ==
  IF Len(recs) = 0 THEN "untried" ELSE IF hasLock THEN "acquired" ELSE "timeout"

Batch == \E recs \in SeqsOf(Records), hasLock \in BOOLEAN :
  Call("batch", batch(grid, cache, recs, hasLock), recs, LockResult(recs, hasLock))

\* Another execution, or a user of the spreadsheet, edits the sheet between
\* two calls: it sets a cell, or removes a row so that the rows below move up.
OobSetCell == \E i \in 1..Len(grid), col \in 1..COLUMN_COUNT :
  \E v \in CellValues(col) :
    /\ grid[i][col] # v
    /\ grid' = [grid EXCEPT ![i][col] = v]
OobDeleteRow == \E i \in 1..Len(grid) :
  grid' = deleteRows(grid, i + 1, 1)
OutOfBand ==
  /\ oob < MaxOob
  /\ oob' = oob + 1
  /\ OobSetCell \/ OobDeleteRow
  /\ synced' = NotSynced
  /\ adding' = IF adding.op = "none" THEN adding ELSE [adding EXCEPT !.raced = TRUE]
  /\ UNCHANGED <<cacheVars, last, ret, pf, calls, concVars, regVars>>

Next ==
  \/ Data \/ Index \/ Related \/ EnforceUnique
  \/ Update \/ Delete \/ Add \/ AddWrite \/ AddOne \/ AddOneAppend
  \/ Upsert \/ UpsertOne \/ Patch \/ Batch
  \/ Wipe \/ Defrag \/ Archive
  \/ Fts \/ Lookup \/ Stream
  \/ OutOfBand

Spec == Init /\ [][Next]_vars

\* ------------------------------------------- the preflight instance (SpecPf)
Preflight == \E recs \in SeqsOf(Records), hasModel \in BOOLEAN :
  /\ calls < MaxCalls
  /\ calls' = calls + 1
  /\ pf' = preflight(hasModel, recs)
  /\ last' = Last("preflight", recs, "untried",
                  IF pf'.made THEN OK ELSE ValidationError, <<>>)
  /\ ret' = <<>>
  /\ UNCHANGED <<grid, cacheVars, synced, oob, adding, concVars, regVars>>

CommitName(name) ==
  [addOne |-> "preflight.addOne", add |-> "preflight.add",
   update |-> "preflight.update", batch |-> "preflight.batch",
   upsert |-> "preflight.upsert", upsertOne |-> "preflight.upsertOne"][name]

Commit == \E name \in CommitActions, hasLock \in BOOLEAN :
  /\ pf.made
  /\ pf.invoked < MaxCommits
  /\ name # "batch" => hasLock
  /\ \E t \in {transact(pf, name, grid, cache, hasLock)} :
       /\ pf' = t.pf
       /\ Effect(CommitName(name), t.res, pf.recs,
                 IF name = "batch" /\ ~pf.transacted
                 THEN LockResult(pf.recs, hasLock) ELSE "untried")
  /\ UNCHANGED <<oob, calls, adding, concVars, regVars>>

NextPf == Data \/ Preflight \/ Commit \/ OutOfBand

SpecPf == Init /\ [][NextPf]_vars

\* ------------------------------------------ concurrent batches (SpecConc)
\* Each execution of Procs has its own collection instance on the same sheet
\* and calls batch once; pc is its position in batch, loc its local values.
\* The script lock is the one lock shared by all executions of the script.
LockedPhase == {"wipe", "clear", "delete", "write", "release"}

At(p, from, to) == pc[p] = from /\ pc' = [pc EXCEPT ![p] = to]

\* The records are filtered, the data block is read and the rows are spliced.
B_Start(p) == \E recs \in SeqsUpTo(Records, MaxConcRecs) :
  /\ Len(recs) > 0
  /\ At(p, "idle", "tryLock")
  /\ loc' = [loc EXCEPT ![p] = [NoLocals EXCEPT !.recs = recs,
                                                !.block = batchData(grid, recs)]]
  /\ UNCHANGED <<grid, lockHolder, seen, seqVars, regVars>>

\* lock.tryLock(30 * 1000): it returns with the lock once the lock is free, or
\* without it when another execution kept it for the whole wait.
B_TryLock(p) ==
  /\ At(p, "tryLock", "check")
  /\ \/ /\ lockHolder = NoProc
        /\ lockHolder' = p
        /\ loc' = [loc EXCEPT ![p].pre = grid]
     \/ /\ lockHolder \notin {NoProc, p}
        /\ UNCHANGED <<lockHolder, loc>>
  /\ UNCHANGED <<grid, seen, seqVars, regVars>>

\* lock.hasLock() that answers yes to every execution.
hasScriptLockUnchecked(holder, p) == TRUE

\* lock.hasLock()
hasScriptLock(holder, p) == holder = p

\* if (!lock.hasLock()) throw ...
B_Check(p) ==
  /\ pc[p] = "check"
  /\ pc' = [pc EXCEPT ![p] = IF hasScriptLock(lockHolder, p) THEN "wipe" ELSE "failed"]
  /\ UNCHANGED <<grid, loc, lockHolder, seen, seqVars, regVars>>

\* wipe(): getMaxRows, and the return when there is no row to wipe.
B_WipeRead(p) ==
  /\ pc[p] = "wipe"
  /\ loc' = [loc EXCEPT ![p].maxRows = getMaxRows(grid)]
  /\ pc' = [pc EXCEPT ![p] =
              IF rowsToWipe(AllRows, getMaxRows(grid)) = 0 THEN "write" ELSE "clear"]
  /\ UNCHANGED <<grid, lockHolder, seen, seqVars, regVars>>

\* wipe(): secondRow.clear()
B_Clear(p) ==
  /\ pc[p] = "clear"
  /\ grid' = clearRow(grid, 2)
  /\ pc' = [pc EXCEPT ![p] =
              IF remaining(AllRows, loc[p].maxRows) > 0 THEN "delete" ELSE "write"]
  /\ UNCHANGED <<loc, lockHolder, seen, seqVars, regVars>>

\* wipe(): s.deleteRows(3, remaining)
B_Delete(p) ==
  /\ At(p, "delete", "write")
  /\ grid' = deleteRows(grid, 3, remaining(AllRows, loc[p].maxRows))
  /\ UNCHANGED <<loc, lockHolder, seen, seqVars, regVars>>

\* getRange(2, 1, data.length, ...).setValues(data)
B_Write(p) ==
  /\ At(p, "write", "release")
  /\ grid' = writeBlock(grid, loc[p].block)
  /\ UNCHANGED <<loc, lockHolder, seen, seqVars, regVars>>

\* lock.releaseLock(), then the return of batch.
B_Release(p) ==
  /\ At(p, "release", "done")
  /\ lockHolder' = IF lockHolder = p THEN NoProc ELSE lockHolder
  /\ UNCHANGED <<grid, loc, seen, seqVars, regVars>>

\* A store call of the wipe or of the rewrite throws: batch has no try/finally,
\* the exception leaves it past lock.releaseLock().
B_Throw(p) ==
  /\ pc[p] \in {"clear", "delete", "write"}
  /\ pc' = [pc EXCEPT ![p] = "thrown"]
  /\ UNCHANGED <<grid, loc, lockHolder, seen, seqVars, regVars>>

\* The sheet the batch of p leaves, from the sheet it found when it got the
\* lock: nothing but one block, the one it spliced, from row 2 on.
PostBatch(p) == loc[p].block

\* Another execution reads the data block (data(), get, fts and the drift
\* check read the sheet without the lock); seen is what it read, and which
\* batch, if any, was then between its lock and its release.
Observe ==
  /\ seen' = IF \E p \in Procs : pc[p] \in LockedPhase
             THEN LET p == CHOOSE q \in Procs : pc[q] \in LockedPhase
                  IN [during |-> p, at |-> pc[p], rows |-> values(grid),
                      pre |-> loc[p].pre, post |-> PostBatch(p)]
             ELSE [NotSeen EXCEPT !.rows = values(grid)]
  /\ seen' # seen
  /\ UNCHANGED <<grid, pc, loc, lockHolder, seqVars, regVars>>

NextConc ==
  \/ \E p \in Procs :
       \/ B_Start(p) \/ B_TryLock(p) \/ B_Check(p) \/ B_WipeRead(p)
       \/ B_Clear(p) \/ B_Delete(p) \/ B_Write(p) \/ B_Release(p)
       \/ B_Throw(p)
  \/ Observe

SpecConc == Init /\ [][NextConc]_vars

\* ------------------------------------------------------------------ claims
\* A step that is a call taking records, and one that invokes a commit action.
IsCall == calls' = calls + 1
IsCommit == pf'.invoked = pf.invoked + 1
TextEq(cell, v) == JsString(cell) = JsString(v)

\* The cache, where built, is what the sheet holds now.
CacheReflectsStore ==
  /\ ~_data.null => _data.recs = materialize(grid)
  /\ \A k \in DOMAIN _index :
       ~_data.null /\ _index[k] = buildIndex(materialize(grid), k)
  /\ \A k \in DOMAIN _related :
       ~_data.null /\ _related[k] = buildRelated(materialize(grid), k)

FirstDrift(g, recs) ==
  LET D == {i \in 1..Len(recs) :
              ~TextEq(getRow(g, recs[i]["_key"])[PkCol], recs[i].id)}
  IN IF D = {} THEN Len(recs) + 1 ELSE SetMin(D)

\* The row update leaves at sheet row r: that of the last record written there.
RowAfterUpdate(g, recs, f, r) ==
  LET at == {i \in 1..(f - 1) : recs[i]["_key"] = r}
  IN IF at = {} THEN getRow(g, r) ELSE recordToRow(recs[SetMax(at)])

C2_Step ==
  (IsCall /\ last'.op = "update" /\ Len(last'.args) > 0) =>
    LET recs == last'.args
        f == FirstDrift(grid, recs)
    IN /\ last'.outcome = IF f > Len(recs) THEN OK ELSE StaleWriteError
       /\ last'.log = [i \in 1..(f - 1) |-> W("setValues", recs[i]["_key"], 1)]
       /\ \A r \in 2..Max(getMaxRows(grid), getMaxRows(grid')) :
            getRow(grid', r) = RowAfterUpdate(grid, recs, f, r)
       /\ \A i \in 1..Len(recs) :
            RowIsBlank(getRow(grid, recs[i]["_key"])) =>
              /\ last'.outcome = StaleWriteError
              /\ f <= i

\* C2: update writes the row at a record's _key only if the primary-key cell
\* of that row equals, as text, the record's primary-key value; the first
\* record for which it does not makes the call fail with StaleWriteError, that
\* row and the rows of the later records unwritten; a blanked row is such a row.
C2_UpdateDriftCheck == [][C2_Step]_vars

C2_Witness ==
  /\ last.op = "update" /\ last.outcome = StaleWriteError
  /\ Len(last.args) = 2 /\ Len(last.log) = 1
  /\ RowIsBlank(getRow(grid, last.args[2]["_key"]))

\* The record the caller gives is one the instance read (it is in the cache
\* with this _key and primary key), and its row is no longer what was read.
RowChangedSinceRead(rec) ==
  /\ ~_data.null
  /\ \E i \in 1..Len(_data.recs) :
       /\ _data.recs[i]["_key"] = rec["_key"]
       /\ _data.recs[i].id = rec.id
       /\ getRow(grid, rec["_key"]) # recordToRow(_data.recs[i])

UpdatesOrDeletesOne ==
  IsCall /\ last'.op \in {"update", "delete"} /\ Len(last'.args) = 1

\* C3 as stated: any change of the row at the record's _key since the record
\* was read makes a later update or delete of it fail with StaleWriteError.
C3_AnyRowChangeIsStale ==
  [][(UpdatesOrDeletesOne /\ RowChangedSinceRead(last'.args[1]))
       => last'.outcome = StaleWriteError]_vars

\* C3, amended: when the row at the record's _key changed since the record was
\* read, update and delete of that record fail with StaleWriteError, leaving
\* the sheet as it is, exactly when the text of the row's primary-key cell is
\* no longer the record's primary-key value; any other change goes unnoticed
\* and the row is written or blanked.
C3_PkChangeIsStale ==
  [][(UpdatesOrDeletesOne /\ RowChangedSinceRead(last'.args[1])) =>
       LET rec == last'.args[1]
           drift == ~TextEq(getRow(grid, rec["_key"])[PkCol], rec.id)
       IN /\ (last'.outcome = StaleWriteError) = drift
          /\ drift => grid' = grid
          /\ ~drift => /\ last'.outcome = OK
                       /\ getRow(grid', rec["_key"]) =
                            IF last'.op = "update" THEN recordToRow(rec) ELSE BlankRow]_vars

C3_Witness ==
  /\ last.op \in {"update", "delete"} /\ last.outcome = StaleWriteError
  /\ Len(last.args) = 1 /\ last.log = <<>>
  /\ RowChangedSinceRead(last.args[1])

\* C4: once a commit action of a preflight instance has returned, every later
\* commit action on it fails with TransactionAlreadyCompleteError and leaves
\* the sheet and the cache alone: nothing is written a second time.
C4_SecondCommitRejected ==
  [][(IsCommit /\ pf.completedAt # 0) =>
       /\ last'.outcome = TransactionAlreadyCompleteError
       /\ last'.log = <<>>
       /\ grid' = grid
       /\ UNCHANGED cacheVars
       /\ pf'.writes = pf.writes /\ pf'.ran = pf.ran]_vars

C4_Witness ==
  /\ pf.completedAt = 1 /\ pf.invoked = 2 /\ pf.writes > 0
  /\ last.outcome = TransactionAlreadyCompleteError

\* C5: at most one commit action of a preflight instance ever runs its
\* operation, whatever the outcome of the first one invoked.
C5_AtMostOneCommitRuns == pf.ran <= 1

\* The block the claim expects of batch: the rows read, each replaced by the
\* last existing record with its _key, then the new records in input order.
ExpectedBlock(g, recs) ==
  LET old == values(g)
      at(i) == {j \in 1..Len(recs) : ~isNew(recs[j]) /\ recs[j]["_key"] = i + 1}
  IN [i \in 1..Len(old) |->
        IF at(i) = {} THEN old[i] ELSE recordToRow(recs[SetMax(at(i))])]
     \o [i \in 1..Len(Adds(recs)) |-> recordToRow(Adds(recs)[i])]

\* C6: a successful batch makes exactly one range assignment, leaves the block
\* read with the existing records' rows replaced and the new records appended,
\* and every record it returns carries the _key of the row that holds it.
C6_BatchRewritesAndKeys ==
  [][(IsCall /\ last'.op = "batch" /\ last'.outcome = OK /\ Len(last'.args) > 0) =>
       /\ Cardinality({i \in 1..Len(last'.log) : last'.log[i][1] = "setValues"}) = 1
       /\ values(grid') = ExpectedBlock(grid, last'.args)
       /\ Len(ret') = Len(last'.args)
       /\ \A i \in 1..Len(ret') :
            /\ ret'[i]["_key"] >= ROW_INDEX_OFFSET
            /\ getRow(grid', ret'[i]["_key"]) = recordToRow(ret'[i])]_vars

\* C7: a batch that does not get the lock within its wait fails with
\* LockTimeoutError and has changed no cell of the sheet: no wipe, no rewrite;
\* and only such a batch fails with LockTimeoutError.
C7_LockTimeoutLeavesStore ==
  [][(IsCall /\ last'.op = "batch") =>
       /\ last'.lock = "timeout" =>
            /\ last'.outcome = LockTimeoutError
            /\ grid' = grid
            /\ last'.log = <<>>
            /\ ret' = <<>>
       /\ last'.outcome = LockTimeoutError => last'.lock = "timeout"]_vars

C7_Witness ==
  /\ last.op = "batch" /\ last.outcome = LockTimeoutError /\ last.lock = "timeout"
  /\ Len(materialize(grid)) > 0

\* The sheet rows, from row 2 on, whose primary-key cell is not blank.
KeyedRows(g) == {r \in 2..getMaxRows(g) : getRow(g, r)[PkCol] # Blank}

\* C10: when data() materializes, it holds one record per row below the header
\* whose primary-key cell is not blank, in row order; the record of row r has
\* _key = r and, for each header, the cell of that row under it.  Blank-key
\* rows are skipped without renumbering.
C10_DataMaterializes ==
  [][(_data.null /\ ~_data'.null /\ grid' = grid) =>
       LET d == _data'.recs
       IN /\ {d[i]["_key"] : i \in 1..Len(d)} = KeyedRows(grid)
          /\ \A i, j \in 1..Len(d) : i < j => d[i]["_key"] < d[j]["_key"]
          /\ \A i \in 1..Len(d) :
               /\ DOMAIN d[i] = Fields
               /\ d[i]["_key"] >= 2
               /\ \A c \in 1..Len(Headers) :
                    d[i][Headers[c]] = getRow(grid, d[i]["_key"])[c]
          /\ last'.op = "data" => ret' = d]_vars

C10_Witness ==
  /\ last.op = "data" /\ ret = _data.recs /\ Len(ret) = 1
  /\ ret[1]["_key"] = 3
  /\ getRow(grid, 2)[PkCol] = Blank /\ ~RowIsBlank(getRow(grid, 2))

\* What a reader finds in the data block while the batch that found the sheet
\* pre is at position at: the rows are there until row 2 is cleared, row 2 is
\* blank until the rows from 3 on are deleted, the block is empty until the
\* range assignment, and the spliced block post is there from then on.
ReadDuring(at, pre, post) ==
  CASE at \in {"wipe", "clear"} -> values(pre)
    [] at = "delete" -> values(clearRow(pre, 2))
    [] at = "write" -> <<>>
    [] at = "release" -> values(post)

\* C8 as stated: a reader never finds, while a batch holds the lock, a data
\* block that is neither the one before the batch nor the one after it.
C8_RewriteIndivisible ==
  seen.during # NoProc => seen.rows \in {values(seen.pre), values(seen.post)}

\* C8, amended: under the lock batch changes the sheet in up to three steps
\* (row 2 cleared, the rows from 3 on deleted, one range assignment of the
\* whole block) and a reader, who takes no lock, finds the content before the
\* batch, that content with row 2 blank, an empty data block, or the content
\* after the batch, according to the step reached; only the range assignment
\* itself is indivisible.
C8_ReaderSeesWipeSteps ==
  seen.during # NoProc => seen.rows = ReadDuring(seen.at, seen.pre, seen.post)

C8_Witness ==
  /\ seen.during # NoProc /\ seen.at = "write" /\ seen.rows = <<>>
  /\ values(seen.pre) # <<>> /\ Len(seen.post) = 2
  /\ pc[seen.during] = "done" /\ values(grid) = values(seen.post)

\* C9: no two executions are at the same time between the lock acquisition
\* and the lock release of batch, and the one that is there holds the lock.
C9_LockedPhaseExclusive ==
  /\ \A p, q \in Procs : (pc[p] \in LockedPhase /\ pc[q] \in LockedPhase) => p = q
  /\ \A p \in Procs : pc[p] \in LockedPhase => lockHolder = p

C9_Witness ==
  \E p, q \in Procs :
    /\ pc[p] \in {"clear", "delete", "write"} /\ grid # loc[p].pre
    /\ pc[q] = "failed"

\* The step in which the add, or the addOne, that read rowCount() goes on.
AddWrites == adding.op = "add" /\ adding'.op = "none"
AddOneAppends == adding.op = "addOne" /\ adding'.op = "none"

\* What the next data() of the instance returns after the step.
NextData == data(grid', Cache(_data', _index', _related')).data.recs

\* C11: an add of n >= 1 records on a sheet whose last used row is L, no other
\* execution writing meanwhile, succeeds with one range assignment of rows
\* L+1..L+n holding the records in input order, returns them with _key L+1..L+n,
\* leaves the rows up to L as they are, and the next data() is the previous
\* records followed by the new ones.
C11_AddAppendsBlock ==
  [][(AddWrites /\ ~adding.raced) =>
       LET recs == adding.recs
           n == Len(recs)
           L == getLastRow(grid)
       IN /\ last'.op = "add" /\ last'.outcome = OK
          /\ last'.log = <<W("setValues", L + 1, n)>>
          /\ ret' = [i \in 1..n |-> SetKey(recs[i], L + i)]
          /\ \A i \in 1..n : getRow(grid', L + i) = recordToRow(recs[i])
          /\ \A r \in 2..L : getRow(grid', r) = getRow(grid, r)
          /\ getLastRow(grid') = L + n
          /\ NextData = materialize(grid) \o ret']_vars

C11_Witness ==
  /\ last.op = "add" /\ last.outcome = OK
  /\ Len(ret) = 1 /\ ret[1]["_key"] = 4
  /\ getRow(grid, 4) = recordToRow(ret[1])
  /\ Len(materialize(grid)) = 3 /\ materialize(grid)[3] = ret[1]

\* C12: when add turns to its destination and the primary-key cell of the first
\* destination row holds something, the call fails with WriteConflictError and
\* the sheet is left as it is; when that cell is blank add succeeds, whatever
\* the later destination rows hold.
C12_OccupiedFirstCellFails ==
  [][AddWrites =>
       LET first == getRow(grid, adding.rowCount + 1)[PkCol]
       IN /\ first # Blank =>
               /\ last'.outcome = WriteConflictError
               /\ grid' = grid
               /\ last'.log = <<>>
          /\ first = Blank => last'.outcome = OK]_vars

\* C13: addOne, no other execution writing meanwhile, appends one row right
\* after the last used row and returns the record with the _key of that row,
\* the row count before the call plus one; the row at the returned _key holds
\* the values of the record.
C13_AddOneReturnsItsRow ==
  [][(AddOneAppends /\ ~adding.raced) =>
       LET rec == adding.recs[1]
           L == getLastRow(grid)
       IN /\ last'.outcome = OK
          /\ last'.log = <<W("appendRow", L + 1, 1)>>
          /\ getRow(grid', L + 1) = recordToRow(rec)
          /\ \A r \in 2..L : getRow(grid', r) = getRow(grid, r)
          /\ ret' = <<SetKey(rec, L + 1)>>
          /\ getRow(grid', ret'[1]["_key"]) = recordToRow(rec)]_vars

C15_DeleteBlanksInPlace ==
  [][(IsCall /\ last'.op = "delete") =>
       LET recs == last'.args
           keys == {recs[i]["_key"] : i \in 1..Len(recs)}
       IN /\ last'.outcome \in {OK, StaleWriteError}
          /\ FirstDrift(grid, recs) <= Len(recs) => last'.outcome = StaleWriteError
          /\ last'.outcome = OK =>
               /\ \A i \in 1..Len(recs) :
                    TextEq(getRow(grid, recs[i]["_key"])[PkCol], recs[i].id)
               /\ last'.log = [i \in 1..Len(recs) |-> W("setValues", recs[i]["_key"], 1)]
               /\ Len(grid') = Len(grid)
               /\ \A r \in 2..getMaxRows(grid) :
                    getRow(grid', r) = IF r \in keys THEN BlankRow ELSE getRow(grid, r)
               /\ ret' = <<>>
               /\ NextData = SelectSeq(materialize(grid),
                                       LAMBDA rec : rec["_key"] \notin keys)]_vars

C15_Witness ==
  /\ last.op = "delete" /\ last.outcome = OK
  /\ Len(last.args) = 1 /\ last.args[1]["_key"] = 2
  /\ Len(grid) = 2 /\ RowIsBlank(getRow(grid, 2))
  /\ Len(materialize(grid)) = 1 /\ materialize(grid)[1]["_key"] = 3

\* The records of a successful upsert as the claim has them returned: those
\* with a _key, then the new ones with the _keys of the rows below row L.
Concatenated(recs, L) ==
  Updates(recs) \o [j \in 1..Len(Adds(recs)) |-> SetKey(Adds(recs)[j], L + j)]

\* The records as upsert returns them: in input order, the j-th new one with
\* the _key of the j-th row below row L.
InInputOrder(recs, L) ==
  [i \in 1..Len(recs) |->
     IF isNew(recs[i])
     THEN SetKey(recs[i], L + Len(Adds(SubSeq(recs, 1, i))))
     ELSE recs[i]]

\* upsert splits its records, and upsertOne routes its record, as follows:
\* what they write and how they end is what update and add (addOne) do.
UpsertRoutes ==
  /\ (IsCall /\ last'.op = "upsert" /\ Len(last'.args) > 0) =>
       LET recs == last'.args
           u == update(grid, cache, Updates(recs))
           a == add(u.grid, u.c, Adds(recs))
       IN IF u.outcome # OK
          THEN last'.outcome = u.outcome /\ grid' = u.grid /\ last'.log = u.log
          ELSE /\ last'.outcome = a.outcome
               /\ grid' = a.grid
               /\ last'.log = u.log \o a.log
  /\ (IsCall /\ last'.op = "upsertOne") =>
       LET rec == last'.args[1]
           r == IF isNew(rec) THEN addOne(grid, cache, rec)
                ELSE update(grid, cache, <<rec>>)
       IN /\ last'.outcome = r.outcome /\ grid' = r.grid
          /\ last'.log = r.log /\ ret' = r.ret

\* C16 as stated: a successful upsert returns the results of the update phase
\* followed by the results of the add phase.
C16_UpsertConcatenates ==
  [][(IsCall /\ last'.op = "upsert" /\ last'.outcome = OK) =>
       ret' = Concatenated(last'.args, getLastRow(grid))]_vars

\* C16, amended: upsert applies update to exactly the records with a _key, then
\* add to exactly the records without one, and returns the records in the order
\* they were given, each new one with the _key add gave it; upsertOne routes a
\* new record to addOne and an existing one to update.
C16_UpsertKeepsInputOrder ==
  [][/\ UpsertRoutes
     /\ (IsCall /\ last'.op = "upsert" /\ last'.outcome = OK) =>
          /\ ret' = InInputOrder(last'.args, getLastRow(grid))
          /\ \A i \in 1..Len(ret') : ret'[i]["_key"] >= ROW_INDEX_OFFSET]_vars

C16_Witness ==
  /\ last.op = "upsert" /\ last.outcome = OK /\ Len(last.args) = 2
  /\ isNew(last.args[1]) /\ ~isNew(last.args[2])
  /\ last.log = <<W("setValues", 2, 1), W("setValues", 3, 1)>>
  /\ ret[1]["_key"] = 3 /\ ret[2] = last.args[2]

\* The records patch looks its patches up in: the cached data, or the rows of
\* the sheet when nothing is cached.
PatchLooksIn == IF _data.null THEN materialize(grid) ELSE _data.recs
Resolvable(k) == \E i \in 1..Len(PatchLooksIn) : PatchLooksIn[i]["_key"] = k
LookedUp(k) ==
  PatchLooksIn[CHOOSE i \in 1..Len(PatchLooksIn) : PatchLooksIn[i]["_key"] = k]

\* The record patch hands to update for patch p: the fields p names, the
\* others from the record looked up.
Patched(p) ==
  [f \in Fields |-> IF f \in DOMAIN p THEN p[f] ELSE LookedUp(p["_key"])[f]]

\* C17: patch looks every patch's _key up before it writes anything: if one of
\* them is missing or resolves to no record the call fails with NotFoundError
\* and no row is written; otherwise the rows are written as update writes the
\* looked-up records with the patch's fields put over them, drift check
\* included.
C17_PatchResolvesFirst ==
  [][(IsCall /\ last'.op = "patch" /\ Len(last'.args) > 0) =>
       LET ps == last'.args
       IN IF \E i \in 1..Len(ps) : ~Resolvable(ps[i]["_key"])
          THEN /\ last'.outcome = NotFoundError
               /\ grid' = grid
               /\ last'.log = <<>>
          ELSE LET recs == [i \in 1..Len(ps) |-> Patched(ps[i])]
                   f == FirstDrift(grid, recs)
               IN /\ last'.outcome = IF f > Len(recs) THEN OK ELSE StaleWriteError
                  /\ last'.log = [i \in 1..(f - 1) |-> W("setValues", recs[i]["_key"], 1)]
                  /\ \A r \in 2..Max(getMaxRows(grid), getMaxRows(grid')) :
                       getRow(grid', r) = RowAfterUpdate(grid, recs, f, r)
                  /\ last'.outcome = OK => ret' = recs]_vars

C17_Witness ==
  /\ last.op = "patch" /\ last.outcome = NotFoundError /\ last.log = <<>>
  /\ Len(last.args) = 2
  /\ \E i \in 1..Len(materialize(grid)) :
       materialize(grid)[i]["_key"] = last.args[1]["_key"]
  /\ \A i \in 1..Len(materialize(grid)) :
       materialize(grid)[i]["_key"] # last.args[2]["_key"]
  /\ oob = 0

\* C18: after a successful patch, every cell of a target row under a header
\* the patch does not name holds what the sheet held there right before the
\* call, whatever the instance has cached and whatever was changed in the
\* sheet since.
C18_PatchLeavesOtherCells ==
  [][(IsCall /\ last'.op = "patch" /\ last'.outcome = OK /\ Len(last'.args) = 1) =>
       LET p == last'.args[1]
       IN \A c \in 1..Len(Headers) :
            Headers[c] \notin DOMAIN p =>
              getRow(grid', p["_key"])[c] = getRow(grid, p["_key"])[c]]_vars

\* C19: enforceUnique(rec, field) has just run: it failed with ConflictError
\* exactly when some record of the collection other than rec (any record when
\* rec has no _key, any record with a different _key when it has one) holds a
\* value for field equal to rec's.
EqualElsewhere(rec, prop) ==
  \E i \in 1..Len(_data.recs) :
    /\ _data.recs[i]["_key"] # rec["_key"]
    /\ _data.recs[i][prop] = rec[prop]
C19_ConflictIffEqualElsewhere ==
  last.op = "enforceUnique" =>
    \A prop \in IndexKeys :
      (last.outcome = ConflictError) <=> EqualElsewhere(last.args[1], prop)

\* The same with values compared as texts (the number 1 equal to the text '1').
TextEqualElsewhere(rec, prop) ==
  \E i \in 1..Len(_data.recs) :
    /\ _data.recs[i]["_key"] # rec["_key"]
    /\ TextEq(_data.recs[i][prop], rec[prop])
C19_ConflictIffTextEqualElsewhere ==
  last.op = "enforceUnique" =>
    \A prop \in IndexKeys :
      (last.outcome = ConflictError) <=> TextEqualElsewhere(last.args[1], prop)

\* C20: in every reachable state each cached unique index and each cached
\* related index is the one built from the currently cached data(): none
\* exists while the data is unbuilt, none holds records of another
\* materialization.
C20_IndexesFromCachedData ==
  /\ \A key \in DOMAIN _index :
       ~_data.null /\ _index[key] = buildIndex(_data.recs, key)
  /\ \A key \in DOMAIN _related :
       ~_data.null /\ _related[key] = buildRelated(_data.recs, key)

\* Both kinds of index are cached over data the sheet no longer matches.
C20_Witness ==
  /\ DOMAIN _index # {}
  /\ DOMAIN _related # {}
  /\ Len(_data.recs) > 0
  /\ CacheStale

\* C21: after a wipe, defrag or archive of the collection that changed the
\* sheet, the next data(), index(f) and related(f) of the same instance give
\* what the sheet holds after the operation, with the rows' new _keys.
Relocations == {"wipe", "defrag", "archive"}
IsRelocation ==
  IsCall /\ last'.op \in Relocations /\ last'.outcome = OK /\ last'.log # <<>>
C21_RelocationInvalidatesCache ==
  [][IsRelocation =>
       /\ NextData = materialize(grid')
       /\ \A key \in DOMAIN _index' : _index'[key] = buildIndex(materialize(grid'), key)
       /\ \A key \in DOMAIN _related' :
            _related'[key] = buildRelated(materialize(grid'), key)]_vars

\* The entry index(key) holds for the value v, looked up as index[v].
Entry(key, v) == _index[key][PropName(key, v)]
\* The records of the cached data() whose value of key is v / has the text of v.
RowsWith(key, v) == {i \in 1..Len(_data.recs) : _data.recs[i][key] = v}
RowsWithText(key, v) ==
  {i \in 1..Len(_data.recs) : PropName(key, _data.recs[i][key]) = PropName(key, v)}

\* C22 as stated: index(field) maps every value of field occurring in data()
\* to a record of data() having that value, the record of the last row with
\* that value.
C22_IndexMapsValueToLastRow ==
  \A key \in DOMAIN _index :
    \A i \in 1..Len(_data.recs) :
      LET v == _data.recs[i][key]
      IN /\ PropName(key, v) \in DOMAIN _index[key]
         /\ Entry(key, v)[key] = v
         /\ Entry(key, v) = _data.recs[SetMax(RowsWith(key, v))]

\* C22: index(field) maps every value of field occurring in data() to the
\* record of the last row of data() whose value has the same text (the number
\* 1 and the text '1' share one entry).
C22_IndexMapsTextToLastRow ==
  \A key \in DOMAIN _index :
    \A i \in 1..Len(_data.recs) :
      LET v == _data.recs[i][key]
      IN /\ PropName(key, v) \in DOMAIN _index[key]
         /\ Entry(key, v) = _data.recs[SetMax(RowsWithText(key, v))]

\* The index on id is built over two rows with one id: a number and its text.
C22_Witness ==
  /\ last.op = "index"
  /\ "id" \in DOMAIN _index
  /\ Len(_data.recs) = 2
  /\ _data.recs[1].id = Num1 /\ _data.recs[2].id = "1"
  /\ Entry("id", Num1) = _data.recs[2]

\* The groups of related(key) a record of the cached data() is in.
GroupsOf(key, rec) ==
  {k \in DOMAIN _related[key] :
     \E j \in 1..Len(_related[key][k]) : _related[key][k][j] = rec}
InRowOrder(recs) ==
  \A i, j \in 1..Len(recs) : i < j => recs[i]["_key"] < recs[j]["_key"]
Partitions(key) ==
  /\ \A i \in 1..Len(_data.recs) :
       GroupsOf(key, _data.recs[i]) = {PropName(key, _data.recs[i][key])}
  /\ \A k \in DOMAIN _related[key] :
       /\ InRowOrder(_related[key][k])
       /\ \A j \in 1..Len(_related[key][k]) :
            \E i \in 1..Len(_data.recs) : _data.recs[i] = _related[key][k][j]

\* C23: related(field) has just run: it returned a partition of data(), every
\* record in exactly one group, the group keyed by its value of field, each
\* group in row order.
C23_RelatedPartitionsData ==
  last.op = "related" =>
    /\ last.outcome = OK
    /\ \A key \in RelatedKeys : key \in DOMAIN _related /\ Partitions(key)

\* ------------------------------------------ the record mapping (SpecMap)
\* Records over the header set: every header present, one missing, none, or
\* a field more than the headers.
MapIds == {Blank, "a", "1", Num1, Num0}
MapNames == {Blank, "x", "y"}
MapRecords ==
  [id : MapIds, name : MapNames] \cup [id : MapIds] \cup [name : MapNames]
    \cup {<<>>} \cup [id : MapIds, name : MapNames, extra : {"e"}]
MapIndexes == 0..MaxRows

\* update's conversion: the record's row is written at the row of index i.
WriteRow == \E rec \in MapRecords, i \in MapIndexes :
  /\ last.op = "new"
  /\ grid' = setValues(grid, i + ROW_INDEX_OFFSET, <<recordToRow(rec)>>)
  /\ last' = Last("recordToRow", <<rec>>, "untried", OK,
                  <<W("setValues", i + ROW_INDEX_OFFSET, 1)>>)
  /\ UNCHANGED <<cacheVars, ret, synced, pf, oob, calls, adding, concVars, regVars>>

\* data()'s conversion of the row just written.
ReadRow ==
  /\ last.op = "recordToRow"
  /\ LET r == last.log[1][2]
     IN ret' = <<getRowAsObject(getRow(grid, r), r - ROW_INDEX_OFFSET, Headers)>>
  /\ last' = [last EXCEPT !.op = "getRowAsObject"]
  /\ UNCHANGED <<grid, cacheVars, synced, pf, oob, calls, adding, concVars, regVars>>

InitMap == Init /\ grid = <<>>
NextMap == WriteRow \/ ReadRow
SpecMap == InitMap /\ [][NextMap]_vars

\* C24: a record R was converted to a row in header order and the row mapped
\* back with index i: the result has every header field of R with R's value, a
\* header field R lacks is blank, and _key is i + 2.
C24_RowRoundTrip ==
  last.op = "getRowAsObject" =>
    LET R == last.args[1]
        i == last.log[1][2] - 2
        back == ret[1]
    IN /\ DOMAIN back = {"_key"} \cup Range(Headers)
       /\ back["_key"] = i + 2
       /\ \A h \in Range(Headers) :
            back[h] = IF h \in DOMAIN R THEN R[h] ELSE Blank

\* A record lacking a header field, and holding a number, came back.
C24_Witness ==
  /\ last.op = "getRowAsObject"
  /\ DOMAIN last.args[1] = {"id"}
  /\ last.args[1].id = Num1
  /\ ret[1]["_key"] = 3
  /\ ret[1].name = Blank

\* The rows the store writes of log put into the sheet g (block writes of
\* batch apart, which rewrite every row).
RowsWritten(g, log) ==
  {getRow(g, r) : r \in UNION {log[k][2]..(log[k][2] + log[k][3] - 1) :
                      k \in {j \in 1..Len(log) : log[j][1] \in {"setValues", "appendRow"}}}}
RowsOf(recs) == {recordToRow(recs[i]) : i \in 1..Len(recs)}
WithoutKeys(recs) == [i \in 1..Len(recs) |-> [recs[i] EXCEPT !["_key"] = NoKey]]

\* No later record of recs is for the row of record i.
LastForItsRow(recs, i) ==
  \A j \in (i + 1)..Len(recs) : isNew(recs[j]) \/ Key(recs[j]) # Key(recs[i])

\* preflight(records) on a collection with a schema: one run of the hook per
\* candidate and no store write; a rejection makes no handle.
PreflightValidatesOnce ==
  (IsCall /\ last'.op = "preflight" /\ pf'.hasModel) =>
    /\ grid' = grid
    /\ last'.log = <<>>
    /\ (last'.outcome = ValidationError) <=>
         (\E i \in 1..Len(last'.args) : Rejects(last'.args[i]))
    /\ last'.outcome = OK =>
         /\ pf'.made
         /\ pf'.hook = Len(last'.args)
         /\ pf'.recs = [i \in 1..Len(last'.args) |-> exec(last'.args[i])]
    /\ last'.outcome = ValidationError =>
         ~pf'.made /\ pf'.hook <= Len(last'.args)

\* A commit action works on the records the validation left, whatever _key it
\* gives them, and does not run the hook.
CommitBoundToValidated ==
  IsCommit =>
    /\ pf'.hook = pf.hook
    /\ WithoutKeys(pf'.recs) = WithoutKeys(pf.recs)

IndexAnswer(key, val) ==
  LET c == index(grid, cache, key)
  IN IF PropName(key, val) \in DOMAIN c.index[key]
     THEN <<c.index[key][PropName(key, val)]>> ELSE <<>>

\* C26: lookup(value, field) on an instance whose data() is materialized
\* answers from the cached unique index and searches the store for nothing.
C26_LookupUsesCachedIndex ==
  [][(IsCall /\ last'.op = "lookup" /\ ~_data.null) =>
       /\ \A k \in 1..Len(last'.log) : last'.log[k][1] # "findAll"
       /\ ret' = IndexAnswer(last'.args[1].key, last'.args[1].val)]_vars

\* C27: fts has just run: it returned one record per matching cell of the
\* sheet as it is now, each built from the present content of its row with
\* that row's number as _key, whatever the instance has cached; the cache is
\* as it was.
C27_FtsReadsLiveStore ==
  [][(IsCall /\ last'.op = "fts") =>
       LET q == last'.args[1].q
           matchCell == last'.args[1].matchCell
           ranges == findAll(grid, q, matchCell)
       IN /\ Len(ret') = Len(ranges)
          /\ \A k \in 1..Len(ret') :
               /\ ret'[k]["_key"] = ranges[k].row
               /\ \A col \in 1..COLUMN_COUNT :
                    ret'[k][Headers[col]] = sheetRow(grid, ranges[k].row)[col]
          /\ \A r \in 1..getMaxRows(grid) :
               (\E col \in 1..COLUMN_COUNT :
                  finderMatches(JsString(sheetRow(grid, r)[col]), q, matchCell))
                 => \E k \in 1..Len(ret') : ret'[k]["_key"] = r
          /\ UNCHANGED <<grid, _data, _index, _related>>]_vars

\* fts found a row the cached data, materialized earlier, holds otherwise.
C27_Witness ==
  /\ last.op = "fts"
  /\ CacheStale
  /\ \E k \in 1..Len(ret) : \E i \in 1..Len(_data.recs) :
       /\ ret[k]["_key"] = _data.recs[i]["_key"]
       /\ ret[k] # _data.recs[i]

\* ------------------------------------------------- the registry (SpecReg)
MaxSheets == 2
SheetNames == {"Task", "a_b", "_log", "constructor"}
\* sheetName[0]
FirstChar(sheetName) ==
  CASE sheetName = "Task" -> "T"
    [] sheetName = "a_b" -> "a"
    [] sheetName = "_log" -> "_"
    [] sheetName = "constructor" -> "c"
\* The rows every sheet of the document starts with.
SheetRows == <<<<"a", "x">>>>
Documents ==
  {names \in SeqsUpTo(SheetNames, MaxSheets) :
     /\ Len(names) > 0
     /\ \A i, j \in 1..Len(names) : i # j => names[i] # names[j]}

SchemaMissingError == "SchemaMissingError"

\* A sheet is left out when its name has '_' anywhere.
retainedNoUnderscore(sheetName) == sheetName \notin {"_log", "a_b"}

\* sheetName[0] !== '_'
retained(sheetName) == FirstChar(sheetName) # "_"

\* schemas[sheetName]: the caller's entry, a property every object literal
\* inherits, or undefined.
schemaOf(schemas, sheetName) ==
  IF sheetName \in schemas THEN "schema"
  ELSE IF sheetName \in ObjectPrototype THEN "inherited"
  ELSE Undefined

\* new SheetDataAccess({ ss }, { schemas }): the sheets are taken in their
\* order; the first retained sheet without schema throws.
construct(sheets, hasSchema, schemas) ==
  LET kept == SelectSeq(sheets, retained)
      missing == {i \in 1..Len(kept) :
                    hasSchema /\ ~Truthy(schemaOf(schemas, kept[i]))}
  IN IF missing # {}
     THEN [NoRegistry EXCEPT !.hasSchema = hasSchema, !.outcome = SchemaMissingError]
     ELSE [NoRegistry EXCEPT
             !.made = TRUE, !.hasSchema = hasSchema, !.names = kept,
             !.schema = [i \in 1..Len(kept) |->
                           IF hasSchema THEN schemaOf(schemas, kept[i]) ELSE Undefined]]

\* Registry archive(folderId), statement by statement; wipe() first.
ArchiveWipingFirst == <<"wipe", "getFolderById", "copy", "getFileById", "moveTo">>

\* Registry archive(folderId), statement by statement.
ArchiveSteps == <<"getFolderById", "copy", "getFileById", "moveTo", "wipe">>

\* Registry wipe(): every collection's wipe(), the other sheets left alone.
wipeCollections(d, names) ==
  [d EXCEPT !.grids = [i \in 1..Len(d.sheets) |->
     IF \E k \in 1..Len(names) : names[k] = d.sheets[i]
     THEN wipe(d.grids[i], AllRows).grid ELSE d.grids[i]]]

\* The document after the statement named step.
archiveStep(d, names, step) ==
  CASE step = "copy" -> [d EXCEPT !.copied = TRUE]
    [] step = "moveTo" -> [d EXCEPT !.moved = d.copied]
    [] step = "wipe" -> wipeCollections(d, names)
    [] OTHER -> d

Construct == \E hasSchema \in BOOLEAN, schemas \in SUBSET SheetNames :
  /\ ~registry.made /\ registry.outcome = OK
  /\ hasSchema \/ schemas = {}
  /\ registry' = construct(doc.sheets, hasSchema, schemas)
  /\ last' = Last("new", <<[hasSchema |-> hasSchema, schemas |-> schemas]>>,
                  "untried", registry'.outcome, <<>>)
  /\ UNCHANGED <<grid, cacheVars, ret, synced, pf, oob, calls, adding, concVars, doc>>

\* archive() runs its statements in turn; a store or drive call may throw,
\* inside wipe() after some of the collections are wiped.
ArchiveStep == \E ok \in BOOLEAN, done \in 0..MaxSheets :
  /\ registry.made /\ ~registry.archived /\ registry.outcome = OK
  /\ registry.step < Len(ArchiveSteps)
  /\ IF ok
     THEN /\ doc' = archiveStep(doc, registry.names, ArchiveSteps[registry.step + 1])
          /\ registry' = [registry EXCEPT
                            !.step = @ + 1,
                            !.archived = (registry.step + 1 = Len(ArchiveSteps))]
     ELSE /\ doc' = IF ArchiveSteps[registry.step + 1] = "wipe" /\ done < Len(registry.names)
                    THEN wipeCollections(doc, SubSeq(registry.names, 1, done))
                    ELSE doc
          /\ registry' = [registry EXCEPT !.outcome = StoreError]
  /\ last' = Last("archive", <<>>, "untried", registry'.outcome, <<>>)
  /\ UNCHANGED <<grid, cacheVars, ret, synced, pf, oob, calls, adding, concVars>>

InitReg ==
  /\ InitCollection
  /\ grid = <<>>
  /\ \E names \in Documents :
       doc = [NoDoc EXCEPT !.sheets = names,
                           !.grids = [i \in 1..Len(names) |-> SheetRows]]
  /\ registry = NoRegistry
NextReg == Construct \/ ArchiveStep
SpecReg == InitReg /\ [][NextReg]_vars

\* C28: a registry was constructed: its collections are exactly the sheets of
\* the document whose name does not start with '_', one each, by name.
C28_CollectionsAreUnprefixedSheets ==
  registry.made =>
    /\ {registry.names[i] : i \in 1..Len(registry.names)}
         = {doc.sheets[i] : i \in {j \in 1..Len(doc.sheets) : FirstChar(doc.sheets[j]) # "_"}}
    /\ \A i, j \in 1..Len(registry.names) :
         i # j => registry.names[i] # registry.names[j]

\* A document with a prefixed sheet and one with '_' inside its name.
C28_Witness ==
  /\ registry.made
  /\ doc.sheets = <<"_log", "a_b">>
  /\ registry.names = <<"a_b">>

\* C29: when a schema map is given, the registry exists only if every
\* retained sheet has an entry of the map; a prefixed sheet needs none.
C29_SchemaForEveryCollection ==
  (last.op = "new" /\ Len(last.args) = 1 /\ last.args[1].hasSchema) =>
    /\ registry.made =>
         \A i \in 1..Len(registry.names) : registry.names[i] \in last.args[1].schemas
    /\ ~registry.made =>
         /\ registry.outcome = SchemaMissingError
         /\ \E i \in 1..Len(doc.sheets) :
              FirstChar(doc.sheets[i]) # "_" /\ doc.sheets[i] \notin last.args[1].schemas

\* C30: a sheet is wiped only once the copy of the document is made and moved;
\* when archive throws before the copy is made and moved, no sheet was wiped.
Intact == \A i \in 1..Len(doc.grids) : doc.grids[i] = SheetRows
C30_WipeAfterCopy ==
  /\ ~Intact => doc.copied /\ doc.moved
  /\ (registry.outcome = StoreError /\ ~(doc.copied /\ doc.moved)) => Intact

\* The archive ran to its end: the copy is in the folder, the collection is
\* wiped and the prefixed sheet is as it was.
C30_Witness ==
  /\ registry.archived /\ doc.copied /\ doc.moved
  /\ doc.sheets = <<"Task", "_log">>
  /\ doc.grids[1] = <<BlankRow>>
  /\ doc.grids[2] = SheetRows

\* C31: wipe() leaves only blank data rows under the header; wipe(n) with
\* 0 <= n < number of data rows removes the last n data rows and leaves the
\* rows before them as they were, in place.
C31_WipeRemovesLastRows ==
  [][(IsCall /\ last'.op = "wipe") =>
       LET n == last'.args[1].rows
       IN /\ n = AllRows => \A i \in 1..Len(grid') : RowIsBlank(grid'[i])
          /\ (0 <= n /\ n < Len(grid)) => grid' = SubSeq(grid, 1, Len(grid) - n)]_vars

\* What wipe(n) does: the first n data rows go, row 2 blanked and the rows
\* under it deleted; the rows after them move up under the blank row.
C31_WipeRemovesFirstRows ==
  [][(IsCall /\ last'.op = "wipe") =>
       LET n == last'.args[1].rows
       IN (0 < n /\ n < Len(grid)) =>
            grid' = <<BlankRow>> \o SubSeq(grid, n + 1, Len(grid))]_vars

\* The data rows with a primary key, in row order, and a defrag call that
\* returned.
Keyed(g) == SelectSeq(g, LAMBDA row : row[PkCol] # Blank)
IsDefrag == IsCall /\ last'.op = "defrag" /\ last'.outcome = OK
Compacted ==
  /\ grid' = Keyed(grid)
  /\ \A i \in 1..Len(last'.log) : last'.log[i][2] >= 2
  /\ defrag(grid', cache').grid = grid'
  /\ defrag(grid', cache').log = <<>>

BatchRec(p) == loc[p].recs[1]
BothDone == \A p \in Procs : pc[p] = "done"
Persisted(p) ==
  /\ (Key(BatchRec(p)) - 1) \in 1..Len(grid)
  /\ grid[Key(BatchRec(p)) - 1] = recordToRow(BatchRec(p))

\* C33: two executions ran batch at the same time, each with a change to a
\* row of its own among the rows the sheet had, and both returned: the sheet
\* holds the rows of both.
C33_ConcurrentBatchesKeepBoth ==
  (/\ BothDone
   /\ \A p \in Procs : ~isNew(BatchRec(p)) /\ (Key(BatchRec(p)) - 1) \in 1..Len(grid)
   /\ \A p \in Procs : Len(loc[p].block) = Len(grid)
   /\ Key(BatchRec("e1")) # Key(BatchRec("e2")))
  => \A p \in Procs : Persisted(p)

\* --------------------------------- concurrent record writes (SpecRace)
\* Each execution of Procs calls update or delete once with one record; the
\* last-second check and the write are two store calls, and no lock is held.
WriteOps == {"update", "delete"}
Checking(op) == IF op = "update" THEN "checkUpdate" ELSE "checkDelete"
Setting(op) == IF op = "update" THEN "setUpdate" ELSE "setDelete"

U_Start(p) == \E rec \in Existing, op \in WriteOps :
  /\ At(p, "idle", Checking(op))
  /\ loc' = [loc EXCEPT ![p] = [NoLocals EXCEPT !.recs = <<rec>>]]
  /\ UNCHANGED <<grid, lockHolder, seen, seqVars, regVars>>

\* String(range.getValues()[0][pk]) !== String(recordValues[pk]): throw
U_Check(p) == \E op \in WriteOps :
  /\ pc[p] = Checking(op)
  /\ pc' = [pc EXCEPT ![p] =
              IF inSync(grid, loc[p].recs[1]) THEN Setting(op) ELSE "failed"]
  /\ loc' = [loc EXCEPT ![p].pre = grid]
  /\ UNCHANGED <<grid, lockHolder, seen, seqVars, regVars>>

\* range.setValues([recordValues]) of _updateRow, range.setValues([new
\* Array(COLUMN_COUNT)]) of delete.
U_Set(p) == \E op \in WriteOps :
  /\ At(p, Setting(op), "done")
  /\ grid' = setValues(grid, Key(loc[p].recs[1]),
                       <<IF op = "delete" THEN BlankRow
                         ELSE recordToRow(loc[p].recs[1])>>)
  /\ UNCHANGED <<loc, lockHolder, seen, seqVars, regVars>>

\* addOne in its store calls: const startingRowCount = this.rowCount()
A_Start(p) == \E rec \in New :
  /\ At(p, "idle", "append")
  /\ loc' = [loc EXCEPT ![p] = [NoLocals EXCEPT !.recs = <<rec>>, !.pre = grid,
                                                !.startingRowCount = rowCount(grid)]]
  /\ UNCHANGED <<grid, lockHolder, seen, seqVars, regVars>>

\* sheet.appendRow(row)
A_Append(p) ==
  /\ At(p, "append", "find")
  /\ grid' = appendRow(grid, recordToRow(loc[p].recs[1]))
  /\ UNCHANGED <<loc, lockHolder, seen, seqVars, regVars>>

\* getRange(startingRowCount, pk + 1, this.rowCount()), findNext() and
\* recordToSave._key = found.getRow(), or the throw when nothing is found.
A_Find(p) ==
  /\ pc[p] = "find"
  /\ \E hits \in {finderHits(loc[p].startingRowCount, grid, loc[p].recs[1])} :
       IF hits = {}
       THEN pc' = [pc EXCEPT ![p] = "failed"] /\ loc' = loc
       ELSE /\ pc' = [pc EXCEPT ![p] = "added"]
            /\ loc' = [loc EXCEPT ![p].found = SetMin(hits)]
  /\ UNCHANGED <<grid, lockHolder, seen, seqVars, regVars>>

NextRace ==
  \E p \in Procs :
    \/ U_Start(p) \/ U_Check(p) \/ U_Set(p)
    \/ A_Start(p) \/ A_Append(p) \/ A_Find(p)
SpecRace == Init /\ [][NextRace]_vars

\* C34: whatever another execution writes in between, update and delete write
\* or blank a row only while its primary-key cell is that of the record.
C34_WritesOnlyOwnRow ==
  [][\A p \in Procs :
       (pc[p] \in {Setting(op) : op \in WriteOps} /\ pc'[p] = "done")
         => inSync(grid, loc[p].recs[1])]_vars

\* C35: batch of one EXISTING record whose _key does not point at its own row
\* (another primary key in that row, or no such row in the block): no row
\* that was there is replaced and the record is put at no other row than the
\* one of its _key.
C35_BatchSparesForeignRows ==
  [][(/\ IsCall /\ last'.op = "batch" /\ last'.outcome = OK
      /\ Len(last'.args) = 1
      /\ ~isNew(last'.args[1])
      /\ ~inSync(grid, last'.args[1]))
     => \A r \in ROW_INDEX_OFFSET .. (Max(Len(grid), Len(grid')) + 1) :
          \/ getRow(grid', r) = getRow(grid, r)
          \/ r = Key(last'.args[1]) /\ r > getMaxRows(grid)]_vars

\* C36: a batch call that has ended, by its return, by the lock timeout or by
\* an error of the wipe or of the rewrite, does not hold the script lock.
Ended == {"done", "failed", "thrown"}
C36_EndedBatchHoldsNoLock == \A p \in Procs : pc[p] \in Ended => lockHolder # p

\* The store calls of a call that write cells, and the calls taking records.
CellWrites(log) == {i \in 1..Len(log) : log[i][1] # "findAll"}
RecordCalls ==
  {"update", "delete", "add", "addOne", "upsert", "upsertOne", "patch", "batch"}

\* C37: a call taking records that wrote at least one cell, returned or
\* thrown, leaves no cached data, index or related index.
C37_WritingCallLeavesNoCache ==
  [][(IsCall /\ last'.op \in RecordCalls /\ CellWrites(last'.log) # {})
       => cache' = clearCached(cache')]_vars

\* The same for the calls that returned.
C37_ReturnedCallLeavesNoCache ==
  [][(IsCall /\ last'.op \in RecordCalls /\ CellWrites(last'.log) # {}
      /\ last'.outcome = OK)
       => cache' = clearCached(cache')]_vars

\* C38: two addOne calls of two executions started on the same sheet, here
\* one without data rows, and both returned: each returned the _key of a row
\* that holds its own record, and the two rows are not the same.
BothAdded ==
  \A p \in Procs : pc[p] = "added" /\ loc[p].pre = <<>>
C38_ConcurrentAddOneKeys ==
  BothAdded =>
    /\ \A p \in Procs : getRow(grid, loc[p].found) = recordToRow(loc[p].recs[1])
    /\ loc["e1"].found # loc["e2"].found

\* Both rows are in the sheet, whatever the calls returned.
C38_BothRowsAppended ==
  BothAdded =>
    \E i, j \in 1..Len(grid) :
      /\ i # j
      /\ grid[i] = recordToRow(loc["e1"].recs[1])
      /\ grid[j] = recordToRow(loc["e2"].recs[1])

\* The verdict of the linear scan of enforceUnique (others, new Set, has) for
\* rec against the cached records.
ScanConflict(rec, prop) ==
  LET others == SelectSeq(_data.recs, LAMBDA oth : oth["_key"] # rec["_key"])
  IN Get(rec, prop) \in {others[i][prop] : i \in 1..Len(others)}

\* C39: for a record without _key the index lookup of enforceUnique gives the
\* verdict the linear scan gives against the same records.
C39_IndexPathAgreesWithScan ==
  (last.op = "enforceUnique" /\ isNew(last.args[1])) =>
    \A prop \in IndexKeys :
      (last.outcome = ConflictError) <=> ScanConflict(last.args[1], prop)

\* C40: stream(size) run to its end on a sheet nobody changes: it ends
\* without error and its chunks, one after the other, are the records of
\* data(), each row with a primary key once, in row order, with its _key.
C40_StreamEqualsData ==
  [][(IsCall /\ last'.op = "stream") =>
       /\ last'.outcome = OK
       /\ ret' = materialize(grid)]_vars

\* What stream yields: the records of data() without the one of the last
\* used row.
C40_StreamMissesLastRow ==
  [][(IsCall /\ last'.op = "stream" /\ last'.outcome = OK) =>
       ret' = SelectSeq(materialize(grid), LAMBDA rec : Key(rec) < rowCount(grid))]_vars

====
